---- MODULE Spec2Model ----
(***************************************************************************)
(* The expression model of math-input: the MathNode tree (ExpressionNode   *)
(* and the UnitNode variants), the cursor held by the root, the structural *)
(* operations insertAfter / delete / collectNumerator, the four cursor     *)
(* navigation functions, and the host element's event handlers that drive  *)
(* them (keydown, the `insert` attribute).                                 *)
(*                                                                         *)
(* Objects live in a heap of numbered cells.  A cell is an ExpressionNode  *)
(* or a UnitNode; `kind` is its class, `char` the constructor argument of  *)
(* an AtomNode or BracketNode, `parent` its _parent field (Null for null), *)
(* `nodes` the _nodes array of an ExpressionNode and `sub` the child       *)
(* expressions a composite unit owns (numerator and denominator, exponent, *)
(* radicand).  Cells are never freed: a unit removed from the tree stays   *)
(* in the heap with the fields it had, as a JavaScript object does while   *)
(* something still refers to it.                                           *)
(*                                                                         *)
(* DOM elements, CSS classes and redraw() are layout only.  redraw() reads *)
(* heights, centers and bracket spans and writes element styles; it never  *)
(* writes _nodes, _parent or _cursor.  The model keeps of them what a      *)
(* caller can observe: the two ways in which they make childInsertAfter    *)
(* and childDelete throw after _nodes is written (redrawThrows,            *)
(* elementContains).  The element tree is not a variable: every splice of  *)
(* _nodes is paired with the same change of the elements, so the elements  *)
(* are read off the nodes.                                                 *)
(*                                                                         *)
(* The host element adds three variables: `value` is its value attribute, *)
(* `error` whether its class list holds 'error', and `busy` whether an     *)
(* event handler was entered and has not returned.  Handlers run one at a  *)
(* time and to completion, so that `busy` stays FALSE unless a handler     *)
(* never returns; nothing else happens in the page from then on.           *)
(*                                                                         *)
(* Strings are sequences of one-character tokens.  The token "PI" stands   *)
(* for the single character U+03C0 and "INF" for U+221E.                   *)
(***************************************************************************)
EXTENDS Integers, Sequences, FiniteSets, TLC

\* Number of units the classifier may build in one run.
MaxInserts == 3
\* Number of units the classifier may build in one run of the library-level
\* specification, where insertAfter and delete take arbitrary arguments.
MaxBuilds == 3

\* Number of characters typed into the field in one run of the
\* specifications in which the user only types.
MaxTyped == 6

\* Number of units inserted in one run of the specification of single terms.
MaxTerm == 4

\* Number of units inserted in one run of the specification of products and
\* powers.
MaxPower == 5

\* Number of characters typed in one run of the specification of absolute
\* values.
MaxPipe == 7

\* Number of units inserted in one run of the specification of editing.
MaxEdit == 2

\* Number of units inserted in one run of the specification of fields that
\* are constructed from a value.
MaxLoad == 4

\* Number of units inserted in one run of the specification of numerators
\* collected.
MaxCollect == 3

\* Number of characters typed in one run of the specification of operator
\* precedence.
MaxPrec == 5

\* Number of units inserted in one run of the specification of empty
\* operands.
MaxEmpty == 3

\* A DivisionNode takes five cells: itself, two expressions, two StartNodes.
CellsPerUnit == 5
\* Room for the root, the units built, and one more that a formula may build.
MaxIds == 2 + CellsPerUnit * ((IF MaxInserts > MaxBuilds THEN MaxInserts ELSE MaxBuilds) + 1)
Ids == 1..MaxIds

\* JavaScript null, as a parent or as a previousSibling.
Null == 0
\* The cell of the root ExpressionNode; its StartNode is the next cell.
Root == 1
\* findIndex's "no such element", and String.prototype.indexOf's.
NotFound == -1
\* JavaScript null where a position in a string is expected.
NullPos == -2
\* The value of a call that ends in a thrown Error.
Throws == -3

VARIABLES kind, char, parent, nodes, sub, cursor, value, error, busy

vars == <<kind, char, parent, nodes, sub, cursor, value, error, busy>>

\* The heap as one value, so that the methods below are functions from
\* heaps to heaps.
Heap == [kind |-> kind, char |-> char, parent |-> parent, nodes |-> nodes, sub |-> sub]

-----------------------------------------------------------------------------
(* Character classes of the regular expressions in the source.             *)

Digits == {"0", "1", "2", "3", "4", "5", "6", "7", "8", "9"}
LatinLower == {"a", "b", "c", "d", "e", "f", "g", "h", "i", "j", "k", "l", "m",
               "n", "o", "p", "q", "r", "s", "t", "u", "v", "w", "x", "y", "z"}
LatinUpper == {"A", "B", "C", "D", "E", "F", "G", "H", "I", "J", "K", "L", "M",
               "N", "O", "P", "Q", "R", "S", "T", "U", "V", "W", "X", "Y", "Z"}
\* The ranges U+03B1..U+03C9 and U+0391..U+03A9, of which the model uses pi.
Greek == {"PI"}
Letters == LatinLower \cup LatinUpper \cup Greek

\* /^[a-zA-Z<greek>0-9.+\-*]$/
AtomChars == Letters \cup Digits \cup {".", "+", "-", "*"}
\* /^[()]$/
BracketChars == {"(", ")"}
\* /[a-zA-Z<greek>0-9%^]+$/ in collectNumerator.
CollectChars == Letters \cup Digits \cup {"%", "^"}

UnitKinds == {"start", "atom", "division", "bracket", "absolute", "exponent", "squareroot"}
CompositeKinds == {"division", "exponent", "squareroot"}

-----------------------------------------------------------------------------
(* Sequences as JavaScript arrays: positions count from 0.                 *)

At(s, i) == s[i + 1]

\* Array.prototype.findIndex((el) => el == x): the first position, or -1.
FindIndex(s, x) ==
    IF \E i \in 1..Len(s) : s[i] = x
    THEN (CHOOSE i \in 1..Len(s) : s[i] = x /\ \A j \in 1..(i - 1) : s[j] # x) - 1
    ELSE NotFound

\* splice(index, 1)
SpliceOut(s, index) == SubSeq(s, 1, index) \o SubSeq(s, index + 2, Len(s))

\* splice(index, 0, x)
SpliceIn(s, index, x) == SubSeq(s, 1, index) \o <<x>> \o SubSeq(s, index + 1, Len(s))

Range(s) == {s[i] : i \in 1..Len(s)}

-----------------------------------------------------------------------------
(* Construction.                                                           *)

Allocated(h) == {i \in Ids : h.kind[i] # "free"}
\* Cells are handed out in order.
NextId(h) == Cardinality(Allocated(h)) + 1

\* new ExpressionNode(p) in cells e and e+1: the expression and the StartNode
\* its constructor pushes.
NewExpression(h, e, p) ==
    [h EXCEPT !.kind = [@ EXCEPT ![e] = "expression", ![e + 1] = "start"],
              !.parent = [@ EXCEPT ![e] = p, ![e + 1] = e],
              !.nodes = [@ EXCEPT ![e] = <<e + 1>>]]

\* new AtomNode(c), new BracketNode(c), new AbsoluteNode(): a unit without
\* children, parent null.
NewLeaf(h, u, k, c) ==
    [h EXCEPT !.kind = [@ EXCEPT ![u] = k], !.char = [@ EXCEPT ![u] = c]]

\* new ExponentNode(), new SquareRootNode(): a unit owning one expression.
NewUnary(h, u, k) ==
    LET h1 == [h EXCEPT !.kind = [@ EXCEPT ![u] = k]]
        h2 == NewExpression(h1, u + 1, u)
    IN [h2 EXCEPT !.sub = [@ EXCEPT ![u] = <<u + 1>>]]

\* new DivisionNode(): numerator first, then denominator.
NewDivision(h, u) ==
    LET h1 == [h EXCEPT !.kind = [@ EXCEPT ![u] = "division"]]
        h2 == NewExpression(h1, u + 1, u)
        h3 == NewExpression(h2, u + 3, u)
    IN [h3 EXCEPT !.sub = [@ EXCEPT ![u] = <<u + 1, u + 3>>]]

\* The empty heap, before buildRootNode.
EmptyHeap ==
    [kind |-> [i \in Ids |-> "free"], char |-> [i \in Ids |-> ""],
     parent |-> [i \in Ids |-> Null], nodes |-> [i \in Ids |-> <<>>],
     sub |-> [i \in Ids |-> <<>>]]

\* MathNode.buildRootNode: a root expression, cursor on its StartNode.
buildRootNode == NewExpression(EmptyHeap, Root, Null)

\* The result of a call that may throw: ok is FALSE when it threw, and h is
\* the heap it left behind.
Done(h) == [ok |-> TRUE, h |-> h]
Thrown(h) == [ok |-> FALSE, h |-> h]

\* A classifier without the final throw: what it does not know is an atom.
buildFromCharacterAtomDefault(h, c) ==
    LET u == NextId(h)
    IN IF c \in AtomChars THEN Done(NewLeaf(h, u, "atom", c))
       ELSE IF c = "/" THEN Done(NewDivision(h, u))
       ELSE IF c \in BracketChars THEN Done(NewLeaf(h, u, "bracket", c))
       ELSE IF c = "|" THEN Done(NewLeaf(h, u, "absolute", "|"))
       ELSE IF c = "^" THEN Done(NewUnary(h, u, "exponent"))
       ELSE Done(NewLeaf(h, u, "atom", c))

\* MathNode.buildFromCharacter(c): the new unit is in cell NextId(h).
buildFromCharacter(h, c) ==
    LET u == NextId(h)
    IN IF c \in AtomChars THEN Done(NewLeaf(h, u, "atom", c))
       ELSE IF c = "/" THEN Done(NewDivision(h, u))
       ELSE IF c \in BracketChars THEN Done(NewLeaf(h, u, "bracket", c))
       ELSE IF c = "|" THEN Done(NewLeaf(h, u, "absolute", "|"))
       ELSE IF c = "^" THEN Done(NewUnary(h, u, "exponent"))
       ELSE Thrown(h)

\* MathNode.buildFromName(name)
buildFromName(h, name) ==
    LET u == NextId(h)
    IN IF name = "sqrt" THEN Done(NewUnary(h, u, "squareroot"))
       ELSE IF name = "pi" THEN Done(NewLeaf(h, u, "atom", "PI"))
       ELSE IF name = "infty" THEN Done(NewLeaf(h, u, "atom", "INF"))
       ELSE Thrown(h)

-----------------------------------------------------------------------------
(* Getters.                                                                *)

\* ExpressionNode.startNode: nodes[0]
startNode(h, e) == At(h.nodes[e], 0)
\* ExpressionNode.endNode: nodes[nodes.length - 1]
endNode(h, e) == At(h.nodes[e], Len(h.nodes[e]) - 1)

numerator(h, u) == h.sub[u][1]
denominator(h, u) == h.sub[u][2]
\* ExponentNode.exponent and SquareRootNode.radicand: the one child.
inner(h, u) == h.sub[u][1]

\* UnitNode.precis, per class.
precisOf(h, u) ==
    CASE h.kind[u] = "start" -> "_"
      [] h.kind[u] = "atom" -> h.char[u]
      [] h.kind[u] = "bracket" -> h.char[u]
      [] h.kind[u] = "absolute" -> "|"
      [] h.kind[u] = "exponent" -> "^"
      [] h.kind[u] \in {"division", "squareroot"} -> "%"

\* UnitNode.previousSibling: Null for the first node; Throws when the unit
\* has no parent or is not among its parent's nodes.
previousSibling(h, u) ==
    IF h.parent[u] = Null THEN Throws
    ELSE LET index == FindIndex(h.nodes[h.parent[u]], u)
         IN IF index = NotFound THEN Throws
            ELSE IF index = 0 THEN Null
            ELSE At(h.nodes[h.parent[u]], index - 1)

\* cursorNodeFromLeft: into the first child expression of a composite.
cursorNodeFromLeft(h, u) ==
    IF h.kind[u] \in CompositeKinds THEN startNode(h, h.sub[u][1]) ELSE u

\* A cursorNodeFromRight that composites override to go to the end of
\* their first child expression.
cursorNodeFromRightInterior(h, u) ==
    IF h.kind[u] \in CompositeKinds THEN endNode(h, h.sub[u][1]) ELSE u

\* cursorNodeFromRight, cursorNodeFromAbove, cursorNodeFromBelow: no class
\* overrides UnitNode's `return this`.
cursorNodeFromRight(h, u) == u
cursorNodeFromAbove(h, u) == u
cursorNodeFromBelow(h, u) == u

-----------------------------------------------------------------------------
(* Structural operations.                                                  *)

\* ExpressionNode.redraw() on expression e, as far as it matters to the
\* caller: it lays out e and then calls this.parent.parent.redraw(), which is
\* a call on null, a TypeError, when the unit that owns e has no parent.
RECURSIVE redrawThrows(_, _, _)
redrawThrows(h, e, fuel) ==
    IF h.parent[e] = Null THEN FALSE
    ELSE IF h.parent[h.parent[e]] = Null THEN TRUE
    ELSE IF fuel = 0 THEN TRUE
    ELSE redrawThrows(h, h.parent[h.parent[e]], fuel - 1)

\* The element of n is the element of x or contains it.  The element of an
\* expression is appended to its unit's element by the constructor, and the
\* element of a unit is a child of its expression's element while the unit
\* is in _nodes.
RECURSIVE elementContains(_, _, _, _)
elementContains(h, n, x, fuel) ==
    IF x = n THEN TRUE
    ELSE IF fuel = 0 \/ h.parent[x] = Null THEN FALSE
    ELSE IF h.kind[x] # "expression" /\ x \notin Range(h.nodes[h.parent[x]]) THEN FALSE
    ELSE elementContains(h, n, h.parent[x], fuel - 1)

\* childDelete splicing out the unit after `node`.
childDeleteNext(h, e, node) ==
    LET index == FindIndex(h.nodes[e], node)
        spliced == [h EXCEPT !.nodes = [@ EXCEPT ![e] = SpliceOut(@, index + 1)]]
    IN IF index = NotFound THEN Thrown(h)
       ELSE IF redrawThrows(spliced, e, MaxIds) THEN Thrown(spliced)
       ELSE Done(spliced)

\* ExpressionNode.childDelete(node) on expression e: indexOf throws 'Node not
\* found.' before anything is written; redraw() runs after the splice.
childDelete(h, e, node) ==
    LET index == FindIndex(h.nodes[e], node)
        spliced == [h EXCEPT !.nodes = [@ EXCEPT ![e] = SpliceOut(@, index)]]
    IN IF index = NotFound THEN Thrown(h)
       ELSE IF redrawThrows(spliced, e, MaxIds) THEN Thrown(spliced)
       ELSE Done(spliced)

\* A delete that removes nothing.
deleteNothing(h, u) ==
    IF h.parent[u] = Null THEN Thrown(h) ELSE Done(h)

\* UnitNode.delete: this.parent.childDelete(this).  The parent field of the
\* removed unit is left as it was.
delete(h, u) ==
    IF h.parent[u] = Null THEN Thrown(h) ELSE childDelete(h, h.parent[u], u)

\* childInsertAfter splicing at index, before `child`.
childInsertBefore(h, e, child, newNode) ==
    LET index == FindIndex(h.nodes[e], child)
        spliced == [h EXCEPT !.parent = [@ EXCEPT ![newNode] = e],
                             !.nodes = [@ EXCEPT ![e] = SpliceIn(@, index, newNode)]]
    IN IF index = NotFound THEN Thrown(h)
       ELSE IF elementContains(h, newNode, e, MaxIds) THEN Thrown(spliced)
       ELSE IF redrawThrows(spliced, e, MaxIds) THEN Thrown(spliced)
       ELSE Done(spliced)

\* ExpressionNode.childInsertAfter(child, newNode) on expression e.  After
\* the splice the element of newNode is inserted into the element of e, which
\* the DOM refuses with a HierarchyRequestError when it contains e; then
\* redraw() runs.
childInsertAfter(h, e, child, newNode) ==
    LET index == FindIndex(h.nodes[e], child)
        spliced == [h EXCEPT !.parent = [@ EXCEPT ![newNode] = e],
                             !.nodes = [@ EXCEPT ![e] = SpliceIn(@, index + 1, newNode)]]
    IN IF index = NotFound THEN Thrown(h)
       ELSE IF elementContains(h, newNode, e, MaxIds) THEN Thrown(spliced)
       ELSE IF redrawThrows(spliced, e, MaxIds) THEN Thrown(spliced)
       ELSE Done(spliced)

\* An insertAfter that does not unlink the node first.
insertAfterWithoutDelete(h, a, node) ==
    IF h.parent[a] = Null THEN Thrown(h)
    ELSE childInsertAfter(h, h.parent[a], a, node)

\* MathNode.insertAfter(node) on anchor a: a node that has a parent is
\* deleted from it first.
insertAfter(h, a, node) ==
    IF h.parent[a] = Null THEN Thrown(h)
    ELSE LET unlinked == IF h.parent[node] # Null THEN delete(h, node) ELSE Done(h)
         IN IF ~unlinked.ok THEN unlinked
            ELSE childInsertAfter(unlinked.h, h.parent[a], a, node)

-----------------------------------------------------------------------------
(* Parenthesis matching and collectNumerator.                              *)

\* The loop of findMatchingParen for an opening parenthesis: i runs upward.
RECURSIVE ScanForward(_, _, _)
ScanForward(str, i, depth) ==
    IF i >= Len(str) THEN NullPos
    ELSE IF At(str, i) = ")"
         THEN (IF depth - 1 = 0 THEN i ELSE ScanForward(str, i + 1, depth - 1))
    ELSE IF At(str, i) = "(" THEN ScanForward(str, i + 1, depth + 1)
    ELSE ScanForward(str, i + 1, depth)

\* The downward loop returning the position after the "(" it stops at.
RECURSIVE ScanBackwardInside(_, _, _)
ScanBackwardInside(str, i, depth) ==
    IF i < 0 THEN NullPos
    ELSE IF At(str, i) = "("
         THEN (IF depth - 1 = 0 THEN i + 1 ELSE ScanBackwardInside(str, i - 1, depth - 1))
    ELSE IF At(str, i) = ")" THEN ScanBackwardInside(str, i - 1, depth + 1)
    ELSE ScanBackwardInside(str, i - 1, depth)

\* The loop of findMatchingParen for a closing parenthesis: i runs downward.
RECURSIVE ScanBackward(_, _, _)
ScanBackward(str, i, depth) ==
    IF i < 0 THEN NullPos
    ELSE IF At(str, i) = "("
         THEN (IF depth - 1 = 0 THEN i ELSE ScanBackward(str, i - 1, depth - 1))
    ELSE IF At(str, i) = ")" THEN ScanBackward(str, i - 1, depth + 1)
    ELSE ScanBackward(str, i - 1, depth)

\* BracketNode.findMatchingParen(str, start): a position, NullPos or Throws.
findMatchingParen(str, start) ==
    IF start < 0 \/ start >= Len(str) THEN Throws
    ELSE IF At(str, start) = "(" THEN ScanForward(str, start + 1, 1)
    ELSE IF At(str, start) = ")" THEN ScanBackward(str, start - 1, 1)
    ELSE Throws

\* The do-while of collectNumerator: the precis of node and of everything
\* before it, found by following previousSibling.
RECURSIVE PrecisUpTo(_, _)
PrecisUpTo(h, node) ==
    LET prev == previousSibling(h, node)
    IN IF prev \in {Null, Throws} THEN <<precisOf(h, node)>>
       ELSE PrecisUpTo(h, prev) \o <<precisOf(h, node)>>

\* A match of /[...]$/ : one character of CollectChars at the end.
TrailingOne(precis) ==
    IF precis = <<>> \/ precis[Len(precis)] \notin CollectChars THEN 0 ELSE 1

\* The length of the match of /[...]+$/ : the longest run of CollectChars at
\* the end of the precis.
RECURSIVE TrailingRun(_)
TrailingRun(precis) ==
    IF precis = <<>> \/ precis[Len(precis)] \notin CollectChars THEN 0
    ELSE 1 + TrailingRun(SubSeq(precis, 1, Len(precis) - 1))

\* The loop with this.numerator.endNode.insertAfter(this.previousSibling).
RECURSIVE MoveToNumeratorEnd(_, _, _)
MoveToNumeratorEnd(h, d, count) ==
    IF count = 0 THEN Done(h)
    ELSE LET prev == previousSibling(h, d)
         IN IF prev \in {Null, Throws} THEN Thrown(h)
            ELSE LET moved == insertAfter(h, endNode(h, numerator(h, d)), prev)
                 IN IF ~moved.ok THEN moved
                    ELSE MoveToNumeratorEnd(moved.h, d, count - 1)

\* for(i < count) this.numerator.startNode.insertAfter(this.previousSibling)
RECURSIVE MoveIntoNumerator(_, _, _)
MoveIntoNumerator(h, d, count) ==
    IF count = 0 THEN Done(h)
    ELSE LET prev == previousSibling(h, d)
         IN IF prev \in {Null, Throws} THEN Thrown(h)
            ELSE LET moved == insertAfter(h, startNode(h, numerator(h, d)), prev)
                 IN IF ~moved.ok THEN moved
                    ELSE MoveIntoNumerator(moved.h, d, count - 1)

\* A collectNumerator that returns true also when nothing matched.
collectNumeratorAlwaysTrue(h, d) ==
    LET first == previousSibling(h, d)
    IN IF first \in {Null, Throws} THEN [ok |-> FALSE, h |-> h, collected |-> FALSE]
       ELSE LET precis == PrecisUpTo(h, first)
                run == TrailingRun(precis)
            IN IF run > 0
               THEN LET m == MoveIntoNumerator(h, d, run)
                    IN [ok |-> m.ok, h |-> m.h, collected |-> TRUE]
               ELSE IF precis[Len(precis)] = ")"
               THEN LET found == findMatchingParen(precis, Len(precis) - 1)
                        start == IF found = NullPos THEN 0 ELSE found
                        m == MoveIntoNumerator(h, d, Len(precis) - start)
                    IN [ok |-> m.ok, h |-> m.h, collected |-> TRUE]
               ELSE [ok |-> TRUE, h |-> h, collected |-> TRUE]

\* DivisionNode.collectNumerator on division d: the heap it leaves and the
\* Boolean it returns.
collectNumerator(h, d) ==
    LET first == previousSibling(h, d)
    IN IF first \in {Null, Throws} THEN [ok |-> FALSE, h |-> h, collected |-> FALSE]
       ELSE LET precis == PrecisUpTo(h, first)
                run == TrailingRun(precis)
            IN IF run > 0
               THEN LET m == MoveIntoNumerator(h, d, run)
                    IN [ok |-> m.ok, h |-> m.h, collected |-> TRUE]
               ELSE IF precis[Len(precis)] = ")"
               THEN LET found == findMatchingParen(precis, Len(precis) - 1)
                        start == IF found = NullPos THEN 0 ELSE found
                        m == MoveIntoNumerator(h, d, Len(precis) - start)
                    IN [ok |-> m.ok, h |-> m.h, collected |-> TRUE]
               ELSE [ok |-> TRUE, h |-> h, collected |-> FALSE]

-----------------------------------------------------------------------------
(* Navigation.  childLeft(h, p, node, def) is p.childLeft(node, def), and  *)
(* likewise for the other three; the class of p selects the method.        *)

RECURSIVE childLeft(_, _, _, _)
childLeft(h, p, node, defaultNode) ==
    IF h.kind[p] = "expression"
    THEN LET index == FindIndex(h.nodes[p], node)
         IN IF index = NotFound THEN Throws
            ELSE IF index # 0 THEN cursorNodeFromRight(h, At(h.nodes[p], index - 1))
            ELSE IF h.parent[p] # Null THEN childLeft(h, h.parent[p], p, defaultNode)
            ELSE defaultNode
    ELSE IF h.kind[p] \in CompositeKinds /\ h.parent[p] # Null
    THEN childLeft(h, h.parent[p], p, defaultNode)
    ELSE Throws

\* childRight with composites that pass the call on to their parent, as
\* their childLeft does.
RECURSIVE childRightPassedOn(_, _, _, _)
childRightPassedOn(h, p, node, defaultNode) ==
    IF h.kind[p] = "expression"
    THEN LET index == FindIndex(h.nodes[p], node)
         IN IF index = NotFound THEN Throws
            ELSE IF index + 1 < Len(h.nodes[p])
                 THEN cursorNodeFromLeft(h, At(h.nodes[p], index + 1))
            ELSE IF h.parent[p] # Null THEN childRightPassedOn(h, h.parent[p], p, defaultNode)
            ELSE defaultNode
    ELSE IF h.kind[p] \in CompositeKinds /\ h.parent[p] # Null
    THEN childRightPassedOn(h, h.parent[p], p, defaultNode)
    ELSE Throws

RECURSIVE childRight(_, _, _, _)
childRight(h, p, node, defaultNode) ==
    IF h.kind[p] = "expression"
    THEN LET index == FindIndex(h.nodes[p], node)
         IN IF index = NotFound THEN Throws
            ELSE IF index + 1 < Len(h.nodes[p])
                 THEN cursorNodeFromLeft(h, At(h.nodes[p], index + 1))
            ELSE IF h.parent[p] # Null THEN childRight(h, h.parent[p], p, defaultNode)
            ELSE defaultNode
    ELSE IF h.kind[p] \in CompositeKinds THEN p
    ELSE Throws

RECURSIVE childUp(_, _, _, _)
childUp(h, p, node, defaultNode) ==
    IF h.kind[p] = "expression"
    THEN (IF h.parent[p] # Null THEN childUp(h, h.parent[p], p, defaultNode)
          ELSE defaultNode)
    ELSE IF h.kind[p] = "division" /\ node = denominator(h, p)
    THEN cursorNodeFromBelow(h, startNode(h, numerator(h, p)))
    ELSE IF h.kind[p] \in UnitKinds /\ h.parent[p] # Null
    THEN childUp(h, h.parent[p], p, defaultNode)
    ELSE Throws

RECURSIVE childDown(_, _, _, _)
childDown(h, p, node, defaultNode) ==
    IF h.kind[p] = "expression"
    THEN (IF h.parent[p] # Null THEN childDown(h, h.parent[p], p, defaultNode)
          ELSE defaultNode)
    ELSE IF h.kind[p] = "division" /\ node = numerator(h, p)
    THEN cursorNodeFromAbove(h, startNode(h, denominator(h, p)))
    ELSE IF h.kind[p] \in UnitKinds /\ h.parent[p] # Null
    THEN childDown(h, h.parent[p], p, defaultNode)
    ELSE Throws

\* nodeLeft() if no class overrode UnitNode's.
nodeLeftOfUnitNode(h, u) ==
    IF h.parent[u] = Null THEN Throws ELSE childLeft(h, h.parent[u], u, u)

\* nodeLeft(): the composites override it and go to the end of their first
\* child expression; every other unit asks its parent.
nodeLeft(h, u) ==
    IF h.kind[u] \in CompositeKinds THEN endNode(h, h.sub[u][1])
    ELSE IF h.parent[u] = Null THEN Throws
    ELSE childLeft(h, h.parent[u], u, u)

nodeRight(h, u) ==
    IF h.parent[u] = Null THEN Throws ELSE childRight(h, h.parent[u], u, u)

nodeUp(h, u) ==
    IF h.parent[u] = Null THEN Throws ELSE childUp(h, h.parent[u], u, u)

nodeDown(h, u) ==
    IF h.parent[u] = Null THEN Throws ELSE childDown(h, h.parent[u], u, u)

-----------------------------------------------------------------------------
(* Serialisation: ExpressionNode.value, _parse and the masks.  A MathML    *)
(* string is a sequence of tokens: a tag is one token, and each character  *)
(* of a number or of an identifier is one token.                           *)

\* str.slice(from, to), str.slice(from) and c.repeat(n) for n >= 0.
Slice(str, from, to) == SubSeq(str, from + 1, to)
SliceFrom(str, from) == SubSeq(str, from + 1, Len(str))
Repeat(c, n) == IF n <= 0 THEN <<>> ELSE [i \in 1..n |-> c]

\* str.indexOf(c, from): the first position from `from` on, or -1.
IndexOf(str, c, from) ==
    IF \E i \in from..(Len(str) - 1) : At(str, i) = c
    THEN CHOOSE i \in from..(Len(str) - 1) :
             At(str, i) = c /\ \A j \in from..(i - 1) : At(str, j) # c
    ELSE NotFound

\* The index of the match of /[+\-]/ : the first "+" or "-".
FirstPlusMinus(str) ==
    IF \E i \in 0..(Len(str) - 1) : At(str, i) \in {"+", "-"}
    THEN CHOOSE i \in 0..(Len(str) - 1) :
             At(str, i) \in {"+", "-"} /\ \A j \in 0..(i - 1) : At(str, j) \notin {"+", "-"}
    ELSE NotFound

\* The index of the match of /([+\-])(?!.*[+\-])/ : the last "+" or "-".
LastPlusMinus(str) ==
    IF \E i \in 0..(Len(str) - 1) : At(str, i) \in {"+", "-"}
    THEN CHOOSE i \in 0..(Len(str) - 1) :
             At(str, i) \in {"+", "-"} /\ \A j \in (i + 1)..(Len(str) - 1) : At(str, j) \notin {"+", "-"}
    ELSE NotFound

\* What the computation of a string does: it returns the string, it throws,
\* or it never returns.
Returns(m) == [status |-> "returns", string |-> m, error |-> ""]
Raises(err) == [status |-> "throws", string |-> <<>>, error |-> err]
Diverges == [status |-> "diverges", string |-> <<>>, error |-> ""]

\* a + b where a is computed before b.
Concat(a, b) ==
    IF a.status # "returns" THEN a
    ELSE IF b.status # "returns" THEN b
    ELSE Returns(a.string \o b.string)

\* open + r + close for a computed r.
Wrap(open, r, close) ==
    IF r.status # "returns" THEN r ELSE Returns(open \o r.string \o close)

\* The while loop of BracketNode.mask: `masked` is rewritten until it holds
\* no "(".  An unmatched "(" masks up to the last position of str.
RECURSIVE BracketNodeMaskLoop(_, _)
BracketNodeMaskLoop(masked, str) ==
    LET start == IndexOf(masked, "(", 0)
        found == findMatchingParen(masked, start)
        end == IF found = NullPos THEN Len(str) - 1 ELSE found
    IN IF start = NotFound THEN masked
       ELSE BracketNodeMaskLoop(Slice(masked, 0, start) \o Repeat("#", end - start + 1)
                                    \o SliceFrom(masked, end + 1), str)

\* A mask that hides nothing.
BracketNodeUnmasked(str) == str

\* BracketNode.mask(str)
BracketNodeMask(str) == BracketNodeMaskLoop(str, str)

\* One turn of the while loop of AbsoluteNode.mask from the position of the
\* first "|".  indexOf answers -1, never null, when there is no second "|":
\* len is then -start, repeat() throws a RangeError for a negative count, and
\* for start = 0 the turn leaves `masked` as it was.
AbsoluteNodeMaskTurn(masked, str, start) ==
    LET found == IndexOf(masked, "|", start + 1)
        end == IF found = NullPos THEN Len(str) - 1 ELSE found
        len == end - start + 1
    IN IF len < 0 THEN Raises("RangeError")
       ELSE Returns(Slice(masked, 0, start) \o Repeat("#", len) \o SliceFrom(masked, end + 1))

\* The while loop of AbsoluteNode.mask.  A turn that leaves `masked` as it
\* was is followed by the same turn, without end.
RECURSIVE AbsoluteNodeMaskLoop(_, _)
AbsoluteNodeMaskLoop(masked, str) ==
    LET start == IndexOf(masked, "|", 0)
        turn == AbsoluteNodeMaskTurn(masked, str, start)
    IN IF start = NotFound THEN Returns(masked)
       ELSE IF turn.status # "returns" THEN turn
       ELSE IF turn.string = masked THEN Diverges
       ELSE AbsoluteNodeMaskLoop(turn.string, str)

\* AbsoluteNode.mask(str)
AbsoluteNodeMask(str) == AbsoluteNodeMaskLoop(str, str)

\* BracketNode.getContext(str, start): the positions of the parentheses
\* around position start, each a position or NullPos; the character at
\* start is replaced by ")" for the one and by "(" for the other.
getContext(str, start) ==
    [open |-> findMatchingParen(Slice(str, 0, start) \o <<")">> \o SliceFrom(str, start + 1), start),
     close |-> findMatchingParen(Slice(str, 0, start) \o <<"(">> \o SliceFrom(str, start + 1), start)]

\* AbsoluteNode.findMatchingPipe(str, start): everything outside the
\* parentheses around start and every parenthesized span inside them is
\* masked, and the pipes that are left are paired off from the start.
findMatchingPipe(str, start) ==
    LET context == getContext(str, start)
        open == IF context.open = NullPos THEN -1 ELSE context.open
        close == IF context.close = NullPos THEN Len(str) ELSE context.close
        masked == BracketNodeMask(Repeat("#", open + 1) \o Slice(str, open + 1, close)
                                      \o Repeat("#", Len(str) - close))
        before == {k \in 0..(start - 1) : At(masked, k) = "|"}
    IN IF Cardinality(before) % 2 = 1
       THEN CHOOSE k \in before : \A j \in before : j <= k
       ELSE IF IndexOf(masked, "|", start + 1) # NotFound
       THEN IndexOf(masked, "|", start + 1)
       ELSE NullPos

\* The length of the match of /^[0-9]+/ on str.slice(from).
RECURSIVE DigitRun(_, _)
DigitRun(str, from) ==
    IF from >= Len(str) \/ At(str, from) \notin Digits THEN 0
    ELSE 1 + DigitRun(str, from + 1)

\* The length of the match of /^[0-9]+/.
WholeLength(str) == DigitRun(str, 0)

\* The length of the match of /^[0-9]+(\.[0-9]+)?/ on a string that starts
\* with a digit.
NumberLength(str) ==
    LET whole == DigitRun(str, 0)
        fraction == DigitRun(str, whole + 1)
    IN IF whole < Len(str) /\ At(str, whole) = "." /\ fraction > 0
       THEN whole + 1 + fraction
       ELSE whole

\* A pattern that matches nothing.
NoFunctionNames == {}

\* /^(sin|cos|tan|ln)/
FunctionNames == {<<"s", "i", "n">>, <<"c", "o", "s">>, <<"t", "a", "n">>, <<"l", "n">>}
StartsWith(str, prefix) ==
    Len(str) >= Len(prefix) /\ SubSeq(str, 1, Len(prefix)) = prefix
\* /^(pi|PI)/
PiNames == {<<"p", "i">>, <<"PI">>}

\* `<${preModifier}/>` for the names of functions.
ModifierTag(preModifier) ==
    CASE preModifier = <<"s", "i", "n">> -> "<sin/>"
      [] preModifier = <<"c", "o", "s">> -> "<cos/>"
      [] preModifier = <<"t", "a", "n">> -> "<tan/>"
      [] preModifier = <<"l", "n">> -> "<ln/>"

\* A turn that knows the names of functions only.
applyFunctionOnly(mathml, preModifier) ==
    IF preModifier \in FunctionNames
    THEN <<"<apply>", ModifierTag(preModifier)>> \o mathml \o <<"</apply>">>
    ELSE mathml

\* One turn of the loop of _parsePreModifiers.
applyPreModifier(mathml, preModifier) ==
    IF preModifier \in FunctionNames
    THEN <<"<apply>", ModifierTag(preModifier)>> \o mathml \o <<"</apply>">>
    ELSE IF preModifier = <<"negative">>
    THEN <<"<apply>", "<minus/>">> \o mathml \o <<"</apply>">>
    ELSE mathml

\* op_tags with the tag of a sum for "*".
OpTagStarAsPlus(op) ==
    CASE op = "+" -> "<plus/>"
      [] op = "-" -> "<minus/>"
      [] op = "*" -> "<plus/>"

\* op_tags in _parseOperator
OpTag(op) ==
    CASE op = "+" -> "<plus/>"
      [] op = "-" -> "<minus/>"
      [] op = "*" -> "<times/>"

\* ExpressionNode._parsePreModifiers: the modifiers are popped, so the one
\* pushed last is applied first.
RECURSIVE parsePreModifiers(_, _)
parsePreModifiers(mathml, preModifiers) ==
    IF preModifiers = <<>> THEN mathml
    ELSE parsePreModifiers(applyPreModifier(mathml, preModifiers[Len(preModifiers)]),
                           SubSeq(preModifiers, 1, Len(preModifiers) - 1))

RECURSIVE parse(_, _, _, _, _)
RECURSIVE unitValue(_, _)

\* ExpressionNode.value
expressionValue(h, e) ==
    parse(h, e, [i \in 1..Len(h.nodes[e]) |-> precisOf(h, h.nodes[e][i])], 0, <<>>)

\* this.nodes[index].value: a TypeError when there is no such node.
nodeValue(h, e, index) ==
    IF index >= Len(h.nodes[e]) THEN Raises("TypeError")
    ELSE unitValue(h, At(h.nodes[e], index))

\* Value getters that put the denominator of a fraction first.
unitValueDenominatorFirst(h, u) ==
    CASE h.kind[u] = "division" ->
             Wrap(<<"<apply>", "<divide/>">>,
                  Concat(expressionValue(h, denominator(h, u)), expressionValue(h, numerator(h, u))),
                  <<"</apply>">>)
      [] h.kind[u] = "exponent" -> expressionValue(h, inner(h, u))
      [] h.kind[u] = "squareroot" ->
             Wrap(<<"<apply>", "<root/>", "<degree>", "<cn>", "2", "</cn>", "</degree>">>,
                  expressionValue(h, inner(h, u)),
                  <<"</apply>">>)
      [] OTHER -> Returns(<<"undefined">>)

\* The value getter of a unit.  DivisionNode, ExponentNode and
\* SquareRootNode define it; in the other classes the property is undefined.
unitValue(h, u) ==
    CASE h.kind[u] = "division" ->
             Wrap(<<"<apply>", "<divide/>">>,
                  Concat(expressionValue(h, numerator(h, u)), expressionValue(h, denominator(h, u))),
                  <<"</apply>">>)
      [] h.kind[u] = "exponent" -> expressionValue(h, inner(h, u))
      [] h.kind[u] = "squareroot" ->
             Wrap(<<"<apply>", "<root/>", "<degree>", "<cn>", "2", "</cn>", "</degree>">>,
                  expressionValue(h, inner(h, u)),
                  <<"</apply>">>)
      [] OTHER -> Returns(<<"undefined">>)

\* Post-modifiers that take the exponent without its base.
parsePostModifiersExponentOnly(h, e, term, mathml, precis, offset) ==
    IF Len(term) < Len(precis) /\ At(precis, Len(term)) = "^"
    THEN [term |-> term \o <<"^">>, mathml |-> nodeValue(h, e, offset + Len(term))]
    ELSE [term |-> term, mathml |-> Returns(mathml)]

\* ExpressionNode._parsePostModifiers: the term and its MathML, with the
\* exponent that follows the term taken in.
parsePostModifiers(h, e, term, mathml, precis, offset) ==
    IF Len(term) < Len(precis) /\ At(precis, Len(term)) = "^"
    THEN [term |-> term \o <<"^">>,
          mathml |-> Wrap(<<"<apply>", "<power/>">> \o mathml,
                          nodeValue(h, e, offset + Len(term)),
                          <<"</apply>">>)]
    ELSE [term |-> term, mathml |-> Returns(mathml)]

\* A product with the rest in front of the term.
parseTermRestFirst(h, e, post, precis, offset, preModifiers) ==
    IF post.mathml.status # "returns" THEN post.mathml
    ELSE IF Len(post.term) = Len(precis)
    THEN Returns(parsePreModifiers(post.mathml.string, preModifiers))
    ELSE Wrap(<<"<apply>", "<times/>">>,
              parse(h, e, SliceFrom(precis, Len(post.term)), offset + Len(post.term), <<>>),
              parsePreModifiers(post.mathml.string, preModifiers) \o <<"</apply>">>)

\* _parseTerm from the point where _parsePostModifiers has returned `post`.
parseTermAfterPost(h, e, post, precis, offset, preModifiers) ==
    IF post.mathml.status # "returns" THEN post.mathml
    ELSE IF Len(post.term) = Len(precis)
    THEN Returns(parsePreModifiers(post.mathml.string, preModifiers))
    ELSE Wrap(<<"<apply>", "<times/>">> \o parsePreModifiers(post.mathml.string, preModifiers),
              parse(h, e, SliceFrom(precis, Len(post.term)), offset + Len(post.term), <<>>),
              <<"</apply>">>)

\* ExpressionNode._parseTerm(term, mathml, precis, offset, preModifiers);
\* `mathml` is what the caller computed for the term, and nothing is called
\* when that computation did not return.
parseTerm(h, e, term, mathml, precis, offset, preModifiers) ==
    IF mathml.status # "returns" THEN mathml
    ELSE parseTermAfterPost(h, e, parsePostModifiers(h, e, term, mathml.string, precis, offset),
                            precis, offset, preModifiers)

\* ExpressionNode._parseOperator(precis, offset, operatorPos)
parseOperator(h, e, precis, offset, operatorPos) ==
    Wrap(<<"<apply>", OpTag(At(precis, operatorPos))>>,
         Concat(parse(h, e, Slice(precis, 0, operatorPos), offset, <<>>),
                parse(h, e, SliceFrom(precis, operatorPos + 1), offset + operatorPos + 1, <<>>)),
         <<"</apply>">>)

\* A _parse for which an empty precis is the empty string.
parseLeadingTermEmptyIsNothing(h, e, precis, offset, preModifiers) ==
    IF precis = <<>> THEN Returns(<<>>)
    ELSE IF precis[1] \in Letters
    THEN parseTerm(h, e, <<precis[1]>>, Returns(<<"<ci>", precis[1], "</ci>">>),
                   precis, offset, preModifiers)
    ELSE IF precis[1] = "%"
    THEN parseTerm(h, e, <<"%">>, nodeValue(h, e, offset), precis, offset, preModifiers)
    ELSE Raises("Cannot parse input.")

\* _parse from the test for a number on: the term the precis starts with.
parseLeadingTerm(h, e, precis, offset, preModifiers) ==
    IF precis # <<>> /\ precis[1] \in Digits
    THEN parseTerm(h, e, Slice(precis, 0, NumberLength(precis)),
                   Returns(<<"<cn>">> \o Slice(precis, 0, NumberLength(precis)) \o <<"</cn>">>),
                   precis, offset, preModifiers)
    ELSE IF \E name \in FunctionNames : StartsWith(precis, name)
    THEN LET term == CHOOSE name \in FunctionNames : StartsWith(precis, name)
         IN parse(h, e, SliceFrom(precis, Len(term)), offset + Len(term), Append(preModifiers, term))
    ELSE IF \E name \in PiNames : StartsWith(precis, name)
    THEN parseTerm(h, e, CHOOSE name \in PiNames : StartsWith(precis, name),
                   Returns(<<"<pi/>">>), precis, offset, preModifiers)
    ELSE IF precis # <<>> /\ precis[1] = "INF"
    THEN parseTerm(h, e, <<"INF">>, Returns(<<"<infinity/>">>), precis, offset, preModifiers)
    ELSE IF precis # <<>> /\ precis[1] = "e"
    THEN parseTerm(h, e, <<"e">>, Returns(<<"<exponentiale/>">>), precis, offset, preModifiers)
    ELSE IF precis # <<>> /\ precis[1] \in Letters
    THEN parseTerm(h, e, <<precis[1]>>, Returns(<<"<ci>", precis[1], "</ci>">>),
                   precis, offset, preModifiers)
    ELSE IF precis # <<>> /\ precis[1] = "%"
    THEN parseTerm(h, e, <<"%">>, nodeValue(h, e, offset), precis, offset, preModifiers)
    ELSE IF precis # <<>> /\ precis[1] = "("
    THEN LET end == findMatchingParen(precis, 0)
         IN IF end = NullPos THEN Raises("Unmatched parenthesis.")
            ELSE parseTerm(h, e, Slice(precis, 0, end + 1),
                           parse(h, e, Slice(precis, 1, end), offset + 1, <<>>),
                           precis, offset, preModifiers)
    ELSE IF precis # <<>> /\ precis[1] = "|"
    THEN LET end == IndexOf(precis, "|", 1)
         IN IF end = NotFound THEN Raises("Unmatched pipe.")
            ELSE parseTerm(h, e, Slice(precis, 0, end + 1),
                           Wrap(<<"<apply>", "<abs/>">>,
                                parse(h, e, Slice(precis, 1, end), offset + 1, <<>>),
                                <<"</apply>">>),
                           precis, offset, preModifiers)
    ELSE Raises("Cannot parse input.")

\* The rules of _parse with the scan for "*" before the scan for "+" and "-".
parseMaskedStarFirst(h, e, precis, offset, preModifiers, masked) ==
    IF masked.status # "returns" THEN masked
    ELSE IF precis # <<>> /\ precis[1] = "_"
    THEN parse(h, e, SliceFrom(precis, 1), offset + 1, <<>>)
    ELSE IF IndexOf(masked.string, "*", 0) # NotFound
    THEN parseOperator(h, e, precis, offset, IndexOf(masked.string, "*", 0))
    ELSE IF LastPlusMinus(masked.string) \notin {NotFound, 0}
    THEN parseOperator(h, e, precis, offset, LastPlusMinus(masked.string))
    ELSE IF precis # <<>> /\ precis[1] = "-"
    THEN parse(h, e, SliceFrom(precis, 1), offset + 1, Append(preModifiers, <<"negative">>))
    ELSE parseLeadingTerm(h, e, precis, offset, preModifiers)

\* _parse from the point where both masks have been computed.
parseMasked(h, e, precis, offset, preModifiers, masked) ==
    IF masked.status # "returns" THEN masked
    ELSE IF precis # <<>> /\ precis[1] = "_"
    THEN parse(h, e, SliceFrom(precis, 1), offset + 1, <<>>)
    ELSE IF LastPlusMinus(masked.string) \notin {NotFound, 0}
    THEN parseOperator(h, e, precis, offset, LastPlusMinus(masked.string))
    ELSE IF IndexOf(masked.string, "*", 0) # NotFound
    THEN parseOperator(h, e, precis, offset, IndexOf(masked.string, "*", 0))
    ELSE IF precis # <<>> /\ precis[1] = "-"
    THEN parse(h, e, SliceFrom(precis, 1), offset + 1, Append(preModifiers, <<"negative">>))
    ELSE parseLeadingTerm(h, e, precis, offset, preModifiers)

\* ExpressionNode._parse(precis, offset, preModifiers)
parse(h, e, precis, offset, preModifiers) ==
    parseMasked(h, e, precis, offset, preModifiers, AbsoluteNodeMask(BracketNodeMask(precis)))

RECURSIVE parseCalls(_, _, _, _)

\* A _parseTerm that parses the rest without moving the offset on.
parseTermCallsSameOffset(h, e, term, mathml, precis, offset) ==
    LET post == parsePostModifiers(h, e, term, mathml.string, precis, offset)
    IN IF mathml.status # "returns" THEN {}
       ELSE IF post.mathml.status # "returns" \/ Len(post.term) = Len(precis) THEN {}
       ELSE parseCalls(h, e, SliceFrom(precis, Len(post.term)), offset)

\* _parseTerm with a term whose MathML is `mathml`: the calls of _parse it
\* leads to.  There is one, for the rest of the precis behind the term and
\* its exponent, when `mathml` and the exponent have been computed and
\* something is left.
parseTermCalls(h, e, term, mathml, precis, offset) ==
    LET post == parsePostModifiers(h, e, term, mathml.string, precis, offset)
    IN IF mathml.status # "returns" THEN {}
       ELSE IF post.mathml.status # "returns" \/ Len(post.term) = Len(precis) THEN {}
       ELSE parseCalls(h, e, SliceFrom(precis, Len(post.term)), offset + Len(post.term))

\* _parseOperator: the left side is parsed, and the right side when that has
\* returned.
parseOperatorCalls(h, e, precis, offset, operatorPos) ==
    parseCalls(h, e, Slice(precis, 0, operatorPos), offset)
        \cup (IF parse(h, e, Slice(precis, 0, operatorPos), offset, <<>>).status = "returns"
              THEN parseCalls(h, e, SliceFrom(precis, operatorPos + 1), offset + operatorPos + 1)
              ELSE {})

\* The calls _parse(precis, offset) of expression e that the call
\* _parse(precis, offset) leads to, itself included, as pairs of the
\* arguments: the branches are those of _parse, and a call is made when the
\* ones before it have returned.
parseCalls(h, e, precis, offset) ==
    LET masked == AbsoluteNodeMask(BracketNodeMask(precis))
        first == IF precis = <<>> THEN "" ELSE precis[1]
        close == IF first = "(" THEN findMatchingParen(precis, 0) ELSE IndexOf(precis, "|", 1)
        inside == parse(h, e, Slice(precis, 1, close), offset + 1, <<>>)
    IN {<<precis, offset>>} \cup
       (IF masked.status # "returns" THEN {}
        ELSE IF first = "_" THEN parseCalls(h, e, SliceFrom(precis, 1), offset + 1)
        ELSE IF LastPlusMinus(masked.string) \notin {NotFound, 0}
        THEN parseOperatorCalls(h, e, precis, offset, LastPlusMinus(masked.string))
        ELSE IF IndexOf(masked.string, "*", 0) # NotFound
        THEN parseOperatorCalls(h, e, precis, offset, IndexOf(masked.string, "*", 0))
        ELSE IF first = "-" THEN parseCalls(h, e, SliceFrom(precis, 1), offset + 1)
        ELSE IF first \in Digits
        THEN parseTermCalls(h, e, Slice(precis, 0, NumberLength(precis)), Returns(<<>>), precis, offset)
        ELSE IF \E name \in FunctionNames : StartsWith(precis, name)
        THEN LET term == CHOOSE name \in FunctionNames : StartsWith(precis, name)
             IN parseCalls(h, e, SliceFrom(precis, Len(term)), offset + Len(term))
        ELSE IF \E name \in PiNames : StartsWith(precis, name)
        THEN parseTermCalls(h, e, CHOOSE name \in PiNames : StartsWith(precis, name),
                            Returns(<<>>), precis, offset)
        ELSE IF first \in {"INF", "e"} \cup Letters
        THEN parseTermCalls(h, e, <<first>>, Returns(<<>>), precis, offset)
        ELSE IF first = "%"
        THEN parseTermCalls(h, e, <<"%">>, nodeValue(h, e, offset), precis, offset)
        ELSE IF first \in {"(", "|"} /\ close \notin {NullPos, NotFound}
        THEN parseCalls(h, e, Slice(precis, 1, close), offset + 1)
                 \cup parseTermCalls(h, e, Slice(precis, 0, close + 1), inside, precis, offset)
        ELSE {})

-----------------------------------------------------------------------------
(* The host element.  An editor state is a heap and the root's cursor.     *)

Editor(h, c) == [h |-> h, cursor |-> c]

\* MathInput.updateValue(): the computation of this.rootNode.value it starts.
\* What it does to the attributes once that computation has returned, has
\* thrown or has turned out endless is in StoreOutcome.
updateValue(h) == expressionValue(h, Root)

\* The handler did not call updateValue.
NotCalled == [status |-> "none", string |-> <<>>, error |-> ""]

\* What an inserting method reports besides the state it leaves: whether it
\* returned (ok), the unit it built (node), the state when MathInput.insert
\* returned (mid), what collectNumerator returned ("true", "false", or
\* "none" when it was not called or threw), and what became of the
\* serialisation updateValue started (update).
Outcome(ok, st, node, mid, collected, update) ==
    [ok |-> ok, h |-> st.h, cursor |-> st.cursor, node |-> node, mid |-> mid,
     collected |-> collected, update |-> update]

\* An insert that calls updateValue() before it inserts.
insertUpdatesFirst(st, node) ==
    LET r == insertAfter(st.h, st.cursor, node)
    IN IF r.ok THEN [ok |-> TRUE, h |-> r.h, cursor |-> node, update |-> updateValue(st.h)]
       ELSE [ok |-> FALSE, h |-> r.h, cursor |-> st.cursor, update |-> NotCalled]

\* MathInput.insert(node): insert after the cursor, then the cursor is node,
\* then updateValue().  redraw() is layout.
insert(st, node) ==
    LET r == insertAfter(st.h, st.cursor, node)
    IN IF r.ok THEN [ok |-> TRUE, h |-> r.h, cursor |-> node, update |-> updateValue(r.h)]
       ELSE [ok |-> FALSE, h |-> r.h, cursor |-> st.cursor, update |-> NotCalled]

\* insertNodeByCharacter from the point where this.insert(node) has
\* returned, has thrown, or has entered a serialisation without end.
insertNodeByCharacterAfterInsert(ins, node, c) ==
    LET mid == Editor(ins.h, ins.cursor)
    IN IF ~ins.ok \/ ins.update.status = "diverges"
       THEN Outcome(FALSE, mid, node, mid, "none", ins.update)
       ELSE IF c = "/"
       THEN LET col == collectNumerator(ins.h, node)
            IN IF ~col.ok THEN Outcome(FALSE, Editor(col.h, node), node, mid, "none", ins.update)
               ELSE IF col.collected
               THEN Outcome(TRUE, Editor(col.h, startNode(col.h, denominator(col.h, node))),
                            node, mid, "true", ins.update)
               ELSE Outcome(TRUE, Editor(col.h, endNode(col.h, numerator(col.h, node))),
                            node, mid, "false", ins.update)
       ELSE IF c = "^"
       THEN Outcome(TRUE, Editor(ins.h, startNode(ins.h, inner(ins.h, node))), node, mid, "none",
                    ins.update)
       ELSE Outcome(TRUE, mid, node, mid, "none", ins.update)

\* MathInput.insertNodeByCharacter(char)
insertNodeByCharacter(st, c) ==
    LET built == buildFromCharacter(st.h, c)
        node == NextId(st.h)
    IN IF ~built.ok THEN Outcome(FALSE, st, Null, st, "none", NotCalled)
       ELSE insertNodeByCharacterAfterInsert(insert(Editor(built.h, st.cursor), node), node, c)

\* insertNodeByName from the point where this.insert(node) has returned, has
\* thrown, or has entered a serialisation without end.
insertNodeByNameAfterInsert(ins, node, name) ==
    LET mid == Editor(ins.h, ins.cursor)
    IN IF ~ins.ok \/ ins.update.status = "diverges"
       THEN Outcome(FALSE, mid, node, mid, "none", ins.update)
       ELSE IF name = "sqrt"
       THEN Outcome(TRUE, Editor(ins.h, startNode(ins.h, inner(ins.h, node))), node, mid, "none",
                    ins.update)
       ELSE Outcome(TRUE, mid, node, mid, "none", ins.update)

\* MathInput.insertNodeByName(name)
insertNodeByName(st, name) ==
    LET built == buildFromName(st.h, name)
        node == NextId(st.h)
    IN IF ~built.ok THEN Outcome(FALSE, st, Null, st, "none", NotCalled)
       ELSE insertNodeByNameAfterInsert(insert(Editor(built.h, st.cursor), node), node, name)

-----------------------------------------------------------------------------
(* From MathML to units.  A unit to be built is described by its class k,  *)
(* its character c, and the units of its child expressions a and b.        *)

Described(k, c, a, b) == [k |-> k, c |-> c, a |-> a, b |-> b]
Character(k, c) == Described(k, c, <<>>, <<>>)
Characters(str) == [i \in 1..Len(str) |-> Character("atom", str[i])]

\* The position of the closing tag of the element whose opening tag has
\* been read, i being the position to read next; 0 if there is none.
RECURSIVE ClosingTag(_, _, _, _, _)
ClosingTag(mml, i, open, close, depth) ==
    IF i > Len(mml) THEN 0
    ELSE IF mml[i] = close
    THEN (IF depth = 1 THEN i ELSE ClosingTag(mml, i + 1, open, close, depth - 1))
    ELSE IF mml[i] = open THEN ClosingTag(mml, i + 1, open, close, depth + 1)
    ELSE ClosingTag(mml, i + 1, open, close, depth)

\* The position of the last token of the element that starts at i.
ElementEnd(mml, i) ==
    CASE mml[i] = "<apply>" -> ClosingTag(mml, i + 1, "<apply>", "</apply>", 1)
      [] mml[i] = "<degree>" -> ClosingTag(mml, i + 1, "<degree>", "</degree>", 1)
      [] mml[i] = "<cn>" -> ClosingTag(mml, i + 1, "<cn>", "</cn>", 1)
      [] mml[i] = "<ci>" -> ClosingTag(mml, i + 1, "<ci>", "</ci>", 1)
      [] OTHER -> i

\* The elements of mml from position i up to position last.
RECURSIVE ChildElements(_, _, _)
ChildElements(mml, i, last) ==
    IF i > last \/ ElementEnd(mml, i) = 0 THEN <<>>
    ELSE <<SubSeq(mml, i, ElementEnd(mml, i))>>
             \o ChildElements(mml, ElementEnd(mml, i) + 1, last)

\* The operands of an <apply>: its child elements but the operator and a
\* <degree>.
Operands(mml) ==
    SelectSeq(ChildElements(mml, 3, Len(mml) - 1), LAMBDA el : el[1] # "<degree>")

\* How tightly the operator of an element binds: a negative is loosest,
\* then sums and differences, products, powers, and what is written as one
\* unit or with its own parentheses.
Binding(mml) ==
    IF mml[1] # "<apply>" THEN 4
    ELSE CASE mml[2] = "<minus/>" /\ Len(Operands(mml)) = 1 -> 0
           [] mml[2] \in {"<plus/>", "<minus/>"} -> 1
           [] mml[2] = "<times/>" -> 2
           [] mml[2] = "<power/>" -> 3
           [] OTHER -> 4

\* The name a function is typed with.
FunctionOfTag(tag) == CHOOSE name \in FunctionNames : ModifierTag(name) = tag
FunctionTags == {ModifierTag(name) : name \in FunctionNames}

\* The character of the operators written between their operands.
CharOfTag(tag) ==
    CASE tag = "<plus/>" -> "+"
      [] tag = "<minus/>" -> "-"
      [] tag = "<times/>" -> "*"

InParentheses(units) ==
    <<Character("bracket", "(")>> \o units \o <<Character("bracket", ")")>>

\* The units that show the element mml.  An operand is put in parentheses
\* when written bare it would be read as part of another operand.  Sums and
\* differences are read from the last operator, so their right operand is
\* bare only if it binds more tightly; products are read from the first
\* "*", so their left operand is; the base of a power is bare if it is one
\* unit.
RECURSIVE unitsFromMathML(_)
operandFromMathML(mml, bare) ==
    IF bare THEN unitsFromMathML(mml) ELSE InParentheses(unitsFromMathML(mml))

applyFromMathML(tag, args) ==
    IF tag \in {"<plus/>", "<minus/>", "<times/>"} /\ Len(args) = 2
    THEN operandFromMathML(args[1], IF tag = "<times/>" THEN Binding(args[1]) > 2
                                    ELSE Binding(args[1]) >= 1)
             \o <<Character("atom", CharOfTag(tag))>>
             \o operandFromMathML(args[2], IF tag = "<times/>" THEN Binding(args[2]) >= 2
                                           ELSE Binding(args[2]) > 1)
    ELSE IF tag = "<minus/>" /\ Len(args) = 1
    THEN <<Character("atom", "-")>> \o operandFromMathML(args[1], Binding(args[1]) > 2)
    ELSE IF tag \in FunctionTags /\ Len(args) = 1
    THEN Characters(FunctionOfTag(tag)) \o InParentheses(unitsFromMathML(args[1]))
    ELSE IF tag = "<abs/>" /\ Len(args) = 1
    THEN <<Character("absolute", "|")>> \o unitsFromMathML(args[1])
             \o <<Character("absolute", "|")>>
    ELSE IF tag = "<power/>" /\ Len(args) = 2
    THEN operandFromMathML(args[1], Binding(args[1]) > 3)
             \o <<Described("exponent", "", unitsFromMathML(args[2]), <<>>)>>
    ELSE IF tag = "<divide/>" /\ Len(args) = 2
    THEN <<Described("division", "", unitsFromMathML(args[1]), unitsFromMathML(args[2]))>>
    ELSE IF tag = "<root/>" /\ Len(args) = 1
    THEN <<Described("squareroot", "", unitsFromMathML(args[1]), <<>>)>>
    ELSE <<>>

unitsFromMathML(mml) ==
    CASE mml = <<>> -> <<>>
      [] mml[1] = "<cn>" -> Characters(SubSeq(mml, 2, Len(mml) - 1))
      [] mml[1] = "<ci>" -> Characters(SubSeq(mml, 2, Len(mml) - 1))
      [] mml[1] = "<pi/>" -> <<Character("atom", "PI")>>
      [] mml[1] = "<exponentiale/>" -> <<Character("atom", "e")>>
      [] mml[1] = "<infinity/>" -> <<Character("atom", "INF")>>
      [] mml[1] = "<apply>" -> applyFromMathML(mml[2], Operands(mml))
      [] OTHER -> <<>>

\* The cells the units described take.
RECURSIVE CellsOf(_)
CellsOf(units) ==
    IF units = <<>> THEN 0
    ELSE (CASE units[1].k = "division" -> 5
            [] units[1].k \in {"exponent", "squareroot"} -> 3
            [] OTHER -> 1)
         + CellsOf(units[1].a) + CellsOf(units[1].b) + CellsOf(Tail(units))

\* The units described are built and appended to expression e one after
\* the other; a composite is built with its child expressions filled.  No
\* layout is done for an expression whose unit is not in the field yet.
RECURSIVE fillFromUnits(_, _, _)
builtUnit(h, u, unit) ==
    IF unit.k = "division"
    THEN fillFromUnits(fillFromUnits(NewDivision(h, u), u + 1, unit.a), u + 3, unit.b)
    ELSE IF unit.k \in {"exponent", "squareroot"}
    THEN fillFromUnits(NewUnary(h, u, unit.k), u + 1, unit.a)
    ELSE NewLeaf(h, u, unit.k, unit.c)

appendedUnit(h, e, u) ==
    [h EXCEPT !.parent = [@ EXCEPT ![u] = e], !.nodes = [@ EXCEPT ![e] = Append(@, u)]]

fillFromUnits(h, e, units) ==
    IF units = <<>> THEN h
    ELSE fillFromUnits(appendedUnit(builtUnit(h, NextId(h), units[1]), e, NextId(h)),
                       e, Tail(units))

\* MathNode.buildNodesetFromMathML(mml) followed by the loop of
\* insertNodesByMathML: each unit of the set is built and handed to
\* MathInput.insert, which updates the value.  `ins` is what the last
\* insert left.
RECURSIVE insertNodes(_, _)
insertNodes(ins, units) ==
    IF ~ins.ok \/ ins.update.status = "diverges" \/ units = <<>> THEN ins
    ELSE insertNodes(insert(Editor(builtUnit(ins.h, NextId(ins.h), units[1]), ins.cursor),
                            NextId(ins.h)),
                     Tail(units))

\* MathInput.insertNodesByMathML(mml)
insertNodesByMathML(st, mml) ==
    insertNodes([ok |-> TRUE, h |-> st.h, cursor |-> st.cursor, update |-> NotCalled],
                unitsFromMathML(mml))

\* The constructor of a field whose value attribute is mml: a new root, and
\* insertNodesByMathML(mml).
constructWithValue(mml) ==
    insertNodesByMathML(Editor(buildRootNode, startNode(buildRootNode, Root)), mml)

\* `x.cursor` read on node x in state st: the _cursor of a node without
\* parent, which for the root is the cursor; any other node throws 'Node is
\* not a root node, so has no cursor.'  A node without parent other than the
\* root was never given a _cursor (Null).
getCursor(st, x) ==
    IF st.h.parent[x] # Null THEN Throws
    ELSE IF x = Root THEN st.cursor
    ELSE Null

\* A cursor setter that writes the _cursor of the node it is called on.
setCursorOwn(st, x, node) ==
    IF x = Root THEN Editor(st.h, node) ELSE st

\* `x.cursor = node` on node x in state st: passed on to the parent until a
\* node without parent is reached, which takes node as its _cursor.
RECURSIVE setCursor(_, _, _)
setCursor(st, x, node) ==
    IF st.h.parent[x] # Null THEN setCursor(st, st.h.parent[x], node)
    ELSE IF x = Root THEN Editor(st.h, node)
    ELSE st

\* The click listener of the element of x: a unit becomes the cursor, an
\* expression makes its endNode the cursor.
click(st, x) ==
    IF st.h.kind[x] = "expression" THEN setCursor(st, x, endNode(st.h, x))
    ELSE setCursor(st, x, x)

\* this.cursorNode = this.cursorNode.nodeX(): a throw leaves the cursor.
Moved(st, target) == IF target = Throws THEN st ELSE Editor(st.h, target)

\* Backspace as it would be without `this.cursorNode = newCursor`.
BackspaceKeepsCursor(st) ==
    LET newCursor == previousSibling(st.h, st.cursor)
    IN IF newCursor \in {Null, Throws} THEN st
       ELSE Editor(delete(st.h, st.cursor).h, st.cursor)

\* A Backspace branch that deletes the previous sibling and leaves the
\* cursor where it is.
BackspaceDeletesPrevious(st) ==
    LET newCursor == previousSibling(st.h, st.cursor)
    IN IF newCursor \in {Null, Throws} THEN st
       ELSE Editor(delete(st.h, newCursor).h, st.cursor)

\* The Backspace branch without `if(newCursor !== null)`.
BackspaceWithoutNullCheck(st) ==
    LET newCursor == previousSibling(st.h, st.cursor)
    IN IF newCursor = Throws THEN st
       ELSE Editor(delete(st.h, st.cursor).h, newCursor)

\* The Backspace branch of _keydown.
Backspace(st) ==
    LET newCursor == previousSibling(st.h, st.cursor)
    IN IF newCursor \in {Null, Throws} THEN st
       ELSE Editor(delete(st.h, st.cursor).h, newCursor)

\* The branches of _keydown after the insertion was tried: e.key is compared
\* with the names of the arrow keys and of Backspace, of which it is one at
\* most.
handleKey(st, key) ==
    IF key = "ArrowLeft" THEN Moved(st, nodeLeft(st.h, st.cursor))
    ELSE IF key = "ArrowRight" THEN Moved(st, nodeRight(st.h, st.cursor))
    ELSE IF key = "ArrowUp" THEN Moved(st, nodeUp(st.h, st.cursor))
    ELSE IF key = "ArrowDown" THEN Moved(st, nodeDown(st.h, st.cursor))
    ELSE IF key = "Backspace" THEN Backspace(st)
    ELSE st

\* The Backspace branch reaches its updateValue(): there is a previous
\* sibling and oldCursor.delete() returns.
BackspaceUpdates(st) ==
    /\ previousSibling(st.h, st.cursor) \notin {Null, Throws}
    /\ delete(st.h, st.cursor).ok

\* _keydown from the point where insertNodeByCharacter has returned or
\* thrown, `tried` being what it left: what it threw is swallowed.  The
\* branches are not reached when it has not come back.
keydownAfterInsert(tried, key) ==
    IF tried.update.status = "diverges" THEN tried
    ELSE Outcome(tried.ok, handleKey(Editor(tried.h, tried.cursor), key),
                 tried.node, tried.mid, tried.collected,
                 IF key = "Backspace" /\ BackspaceUpdates(Editor(tried.h, tried.cursor))
                 THEN updateValue(Backspace(Editor(tried.h, tried.cursor)).h)
                 ELSE tried.update)

\* MathInput._keydown(e) with e.ctrlKey false and e.key = key.
keydown(st, key) == keydownAfterInsert(insertNodeByCharacter(st, key), key)

\* attributeChangedCallback from the point where insertNodeByCharacter has
\* returned or thrown: insertNodeByName if it threw.
insertAttributeAfterChar(byChar, name) ==
    IF byChar.ok \/ byChar.update.status = "diverges" THEN byChar
    ELSE insertNodeByName(Editor(byChar.h, byChar.cursor), name)

\* attributeChangedCallback('insert', old, name) on a connected element with
\* name # '': insertNodeByCharacter, and insertNodeByName if that throws.
insertAttribute(st, name) ==
    insertAttributeAfterChar(insertNodeByCharacter(st, name), name)

-----------------------------------------------------------------------------
(* The specification of the host element: the events it handles, one at a  *)
(* time, from the state buildRootNode leaves.                              *)

\* The units built so far by buildFromCharacter and buildFromName.
Built == Cardinality({i \in Ids : kind[i] \in UnitKinds \ {"start"}})

ArrowKeys == {"ArrowLeft", "ArrowRight", "ArrowUp", "ArrowDown"}
\* A key that is neither a character of the field nor a key it handles.
OtherKeys == {"Shift"}
\* The characters typed and the names sent through the insert attribute.
CharKeys == {"1", "(", ")", "/"}
NavKeys == {")", "/"}
InsertNames == {"sqrt"}

Expressions(h) == {i \in Ids : h.kind[i] = "expression"}
Units(h) == {i \in Ids : h.kind[i] \in UnitKinds}

\* x is attached: it is the root, or it is listed by its parent (a unit in
\* the parent's nodes, an expression among the parent's child expressions)
\* and the parent is attached.  The chain is followed for at most `fuel`
\* steps, so that a cycle of parents counts as not attached.
RECURSIVE AttachedWithin(_, _, _)
AttachedWithin(h, x, fuel) ==
    IF x = Root THEN TRUE
    ELSE IF fuel = 0 \/ h.parent[x] = Null THEN FALSE
    ELSE /\ IF h.kind[x] = "expression"
            THEN x \in Range(h.sub[h.parent[x]])
            ELSE x \in Range(h.nodes[h.parent[x]])
         /\ AttachedWithin(h, h.parent[x], fuel - 1)

Attached(h, x) == AttachedWithin(h, x, MaxIds)
AttachedUnits(h) == {u \in Units(h) : Attached(h, u)}

Now == Editor(Heap, cursor)

StoreTree(h, c) ==
    /\ kind' = h.kind
    /\ char' = h.char
    /\ parent' = h.parent
    /\ nodes' = h.nodes
    /\ sub' = h.sub
    /\ cursor' = c

\* A step of a program that uses the library without the host element.
Store(h, c) ==
    /\ StoreTree(h, c)
    /\ UNCHANGED <<value, error, busy>>

\* The try and the catch of updateValue(): classList.remove('error') comes
\* first, then setAttribute('value', ...) once this.rootNode.value has
\* returned; the catch adds 'error' and sets the value to ''.
StoreUpdate(update) ==
    /\ value' = (IF update.status = "returns" THEN update.string
                 ELSE IF update.status = "throws" THEN <<>>
                 ELSE value)
    /\ error' = (IF update.status = "none" THEN error ELSE update.status = "throws")
    /\ busy' = (update.status = "diverges")

\* The tree, the cursor and the attributes an event handler leaves.
StoreOutcome(out) ==
    /\ StoreTree(out.h, out.cursor)
    /\ StoreUpdate(out.update)

\* getAttribute('value') of an element without the attribute.
NoValue == <<"null">>

Init ==
    /\ kind = buildRootNode.kind
    /\ char = buildRootNode.char
    /\ parent = buildRootNode.parent
    /\ nodes = buildRootNode.nodes
    /\ sub = buildRootNode.sub
    /\ cursor = startNode(buildRootNode, Root)
    /\ value = NoValue
    /\ error = FALSE
    /\ busy = FALSE

\* keydown with a character of the field.
KeyInsert(key) ==
    /\ ~busy
    /\ Built < MaxInserts
    /\ StoreOutcome(keydown(Now, key))

\* keydown with an arrow key, Backspace or a key the field ignores.
KeyOther(key) ==
    /\ ~busy
    /\ StoreOutcome(keydown(Now, key))

\* A click on the element of an expression or of a unit that is in the
\* field.
Click(x) ==
    /\ ~busy
    /\ kind[x] # "free"
    /\ Attached(Heap, x)
    /\ Store(click(Now, x).h, click(Now, x).cursor)

\* A field is constructed with the value of this one as its value
\* attribute, and is the field from then on.
Construct ==
    /\ ~busy
    /\ ~error
    /\ value # NoValue
    /\ 2 + CellsOf(unitsFromMathML(value)) <= MaxIds
    /\ StoreOutcome(constructWithValue(value))

\* if(e.ctrlKey) return;
KeyWithCtrl ==
    /\ ~busy
    /\ UNCHANGED vars

\* The insert attribute set to a character or to a name.
InsertAttribute(name) ==
    /\ ~busy
    /\ Built < MaxInserts
    /\ StoreOutcome(insertAttribute(Now, name))

HostNext(chars, names) ==
    \/ \E key \in chars : KeyInsert(key)
    \/ \E key \in ArrowKeys \cup {"Backspace"} \cup OtherKeys : KeyOther(key)
    \/ KeyWithCtrl
    \/ \E name \in chars \cup names : InsertAttribute(name)

\* The field with digits, parentheses and fractions typed into it.
Next == HostNext(CharKeys, {})

Spec == Init /\ [][Next]_vars

\* The field with fractions and closing parentheses typed and square roots
\* inserted through the attribute.
NavNext == HostNext(NavKeys, InsertNames)

SpecNav == Init /\ [][NavNext]_vars

\* The field with parentheses, pipes and a letter typed into it.
AbsKeys == {"(", ")", "|", "x"}

AbsNext == HostNext(AbsKeys, {})

SpecAbs == Init /\ [][AbsNext]_vars

-----------------------------------------------------------------------------
(* The field of a user who types and never moves the cursor or deletes:    *)
(* what is typed is appended where the last insertion left the cursor.     *)

\* keydown with a character of the field, while the field holds fewer than
\* max units and cells remain for the unit.
TypeWithin(max, key) ==
    /\ ~busy
    /\ Built < max
    /\ NextId(Heap) + CellsPerUnit - 1 <= MaxIds
    /\ StoreOutcome(keydown(Now, key))

\* The insert attribute set to a name, under the same conditions.
InsertWithin(max, name) ==
    /\ ~busy
    /\ Built < max
    /\ NextId(Heap) + CellsPerUnit - 1 <= MaxIds
    /\ StoreOutcome(insertAttribute(Now, name))

Type(key) == TypeWithin(MaxTyped, key)

\* Sums and differences of a digit and a letter.
SumKeys == {"1", "x", "+", "-"}

SumNext == \E key \in SumKeys : Type(key)

SpecSum == Init /\ [][SumNext]_vars

\* Parentheses around sums and differences of a letter.
ParenKeys == {"(", ")", "x", "+", "-"}

ParenNext == \E key \in ParenKeys : Type(key)

SpecParen == Init /\ [][ParenNext]_vars

\* Signs in front of products of a digit, a letter and parentheses.
NegKeys == {"-", "x", "1", "(", ")"}

NegNext == \E key \in NegKeys : Type(key)

SpecNeg == Init /\ [][NegNext]_vars

\* The letters of "sin", an argument, and parentheses.
FunctionKeys == {"s", "i", "n", "x", "(", ")"}

FunctionNext == \E key \in FunctionKeys : Type(key)

SpecFunction == Init /\ [][FunctionNext]_vars

\* Numbers, constants and identifiers: the characters typed and the names
\* of the symbols inserted through the attribute.
TermKeys == {"1", ".", "p", "i", "e", "x"}
TermNames == {"pi", "infty"}

TermNext ==
    \/ \E key \in TermKeys : TypeWithin(MaxTerm, key)
    \/ \E name \in TermNames : InsertWithin(MaxTerm, name)

SpecTerm == Init /\ [][TermNext]_vars

\* Products and powers: a digit, a letter, exponents and parentheses are
\* typed, and ArrowRight leaves an exponent.
PowerKeys == {"1", "x", "^", "(", ")"}

PowerNext ==
    \/ \E key \in PowerKeys : TypeWithin(MaxPower, key)
    \/ KeyOther("ArrowRight")

SpecPower == Init /\ [][PowerNext]_vars

\* Absolute values: pipes, parentheses, a letter and a plus sign are typed.
PipeKeys == {"|", "x", "+", "(", ")"}

PipeNext == \E key \in PipeKeys : TypeWithin(MaxPipe, key)

SpecPipe == Init /\ [][PipeNext]_vars

\* Editing: a letter, a closing parenthesis, a slash and an exponent are
\* typed, a square root is inserted, the arrow keys, Backspace and a key the
\* field does not know are pressed, and what the field shows is clicked.
EditKeys == {"x", ")", "/", "^"}
EditNames == {"sqrt"}

EditNext ==
    \/ \E key \in EditKeys : TypeWithin(MaxEdit, key)
    \/ \E name \in EditNames : InsertWithin(MaxEdit, name)
    \/ \E key \in ArrowKeys \cup {"Backspace"} \cup OtherKeys : KeyOther(key)
    \/ \E x \in Ids : Click(x)

SpecEdit == Init /\ [][EditNext]_vars

\* Precedence: digits, a letter, a plus sign and a star are typed.
PrecKeys == {"1", "2", "3", "x", "+", "*"}

PrecNext == \E key \in PrecKeys : TypeWithin(MaxPrec, key)

SpecPrec == Init /\ [][PrecNext]_vars

\* Numerators collected: a letter, a plus sign, a point, parentheses, a
\* pipe, an exponent and a slash are typed, infinity and a square root are
\* inserted, and ArrowRight leaves a child expression.
CollectKeys == {"x", "+", ".", "(", ")", "|", "^", "/"}
CollectNames == {"infty", "sqrt"}

CollectNext ==
    \/ \E key \in CollectKeys : TypeWithin(MaxCollect, key)
    \/ \E name \in CollectNames : InsertWithin(MaxCollect, name)
    \/ KeyOther("ArrowRight")

SpecCollect == Init /\ [][CollectNext]_vars

\* Empty operands: the letters of "ln", operators, parentheses, a pipe, an
\* exponent and a slash are typed, a square root is inserted, and
\* ArrowRight leaves a child expression.
EmptyKeys == {"l", "n", "+", "-", "*", "(", ")", "|", "^", "/"}
EmptyNames == {"sqrt"}

EmptyNext ==
    \/ \E key \in EmptyKeys : TypeWithin(MaxEmpty, key)
    \/ \E name \in EmptyNames : InsertWithin(MaxEmpty, name)
    \/ KeyOther("ArrowRight")

SpecEmpty == Init /\ [][EmptyNext]_vars

\* Fields constructed from a value: a digit, a letter, a minus sign,
\* parentheses, an exponent and a slash are typed, a square root is
\* inserted, ArrowRight leaves a child expression, and a field is
\* constructed from the value.
LoadKeys == {"1", "x", "-", "(", ")", "^", "/"}
LoadNames == {"sqrt"}

LoadNext ==
    \/ \E key \in LoadKeys : TypeWithin(MaxLoad, key)
    \/ \E name \in LoadNames : InsertWithin(MaxLoad, name)
    \/ KeyOther("ArrowRight")
    \/ Construct

SpecLoad == Init /\ [][LoadNext]_vars

\* Fractions and square roots: a digit, a letter, a minus sign and a slash
\* are typed, and a square root is inserted.
FractionKeys == {"1", "x", "-", "/"}
FractionNames == {"sqrt"}

FractionNext ==
    \/ \E key \in FractionKeys : TypeWithin(MaxPower, key)
    \/ \E name \in FractionNames : InsertWithin(MaxPower, name)

SpecFraction == Init /\ [][FractionNext]_vars

-----------------------------------------------------------------------------
(* The specification of the library: a program that builds units and calls *)
(* insertAfter and delete on any units it holds.  The cursor is not moved. *)

\* The characters given to buildFromCharacter.
BuildChars == {"1", "/"}

\* MathNode.buildFromCharacter(c), the unit kept for later calls.
Build(c) ==
    /\ Built < MaxBuilds
    /\ Store(buildFromCharacter(Heap, c).h, cursor)

\* a.insertAfter(node); what it has written when it throws stays written.
\* The program does not insert a unit into an expression of its own: the DOM
\* refuses that after _nodes is written, and from then on the elements and
\* the nodes would disagree.
InsertAfter(a, node) ==
    /\ ~elementContains(Heap, node, a, MaxIds)
    /\ Store(insertAfter(Heap, a, node).h, cursor)

\* node.delete()
Delete(node) == Store(delete(Heap, node).h, cursor)

\* The units the program holds: those buildFromCharacter returned to it.
\* A StartNode is reached through startNode and serves as an anchor only.
Held == {i \in Ids : kind[i] \in UnitKinds \ {"start"}}

LibNext ==
    \/ \E c \in BuildChars : Build(c)
    \/ \E a \in {i \in Ids : kind[i] \in UnitKinds}, node \in Held : InsertAfter(a, node)
    \/ \E node \in Held : Delete(node)

SpecLib == Init /\ [][LibNext]_vars

-----------------------------------------------------------------------------
(* What the claims speak of.                                               *)

\* The number of positions of s that hold x.
Occurrences(s, x) == Cardinality({i \in 1..Len(s) : s[i] = x})

\* C1: every ExpressionNode has a StartNode at index 0 of its nodes and no
\* StartNode at any other index.  (Typing ")" and then "/" refutes it:
\* collectNumerator finds no "(" and moves the StartNode as well.)
C1_StartNodeFirstAndOnlyFirst ==
    \A e \in Expressions(Heap) :
        /\ Len(nodes[e]) >= 1
        /\ kind[nodes[e][1]] = "start"
        /\ \A i \in 2..Len(nodes[e]) : kind[nodes[e][i]] # "start"

\* A unit that delete() has removed: it names a parent that does not list it.
Removed(h, u) == h.parent[u] # Null /\ u \notin Range(h.nodes[h.parent[u]])

\* C2: the root's cursor is a unit that is attached: it is in its parent's
\* nodes and its chain of parents leads to the root.
C2_CursorAttached ==
    /\ cursor \in Units(Heap)
    /\ Attached(Heap, cursor)

\* C2 is met after a Backspace inside a child expression: a unit has been
\* removed, and the cursor is on an attached unit below the root expression.
C2_Witness ==
    /\ \E u \in Units(Heap) : Removed(Heap, u)
    /\ parent[cursor] # Root
    /\ C2_CursorAttached

\* C3: every node whose parent is not null occurs exactly once in that
\* parent's list of children (a unit in its nodes, an expression among the
\* expressions the unit owns) and in the list of no other node.  (delete()
\* takes the unit out of the list and leaves its parent field set.)
C3_ParentListsChildOnce ==
    \A x \in Units(Heap) \cup Expressions(Heap) :
        parent[x] # Null =>
            /\ IF kind[x] = "expression"
               THEN Occurrences(sub[parent[x]], x) = 1
               ELSE Occurrences(nodes[parent[x]], x) = 1
            /\ \A y \in Ids \ {parent[x]} :
                   x \notin Range(nodes[y]) \cup Range(sub[y])

\* An expression above x is the denominator (which = 2) or the numerator
\* (which = 1) of a Division: the Division that intercepts nodeUp or nodeDown.
RECURSIVE InsideDivisionPart(_, _, _, _)
InsideDivisionPart(h, x, which, fuel) ==
    IF fuel = 0 \/ h.parent[x] = Null THEN FALSE
    ELSE IF h.kind[x] = "expression" /\ h.kind[h.parent[x]] = "division"
            /\ h.sub[h.parent[x]][which] = x THEN TRUE
    ELSE InsideDivisionPart(h, h.parent[x], which, fuel - 1)

\* A navigation function returned, and returned an attached unit.
LandsInTree(h, target) == target # Throws /\ target \in AttachedUnits(h)

\* C4: on every attached unit N each of nodeLeft, nodeRight, nodeUp and
\* nodeDown returns an attached unit, and returns N when there is no move:
\* nodeLeft on the root's StartNode, nodeRight on the root's last unit, nodeUp
\* outside every denominator and nodeDown outside every numerator.  (After
\* ")" and "/" the root's startNode is a Division, and nodeLeft enters it.)
C4_NavigationTotal ==
    \A N \in AttachedUnits(Heap) :
        /\ LandsInTree(Heap, nodeLeft(Heap, N))
        /\ LandsInTree(Heap, nodeRight(Heap, N))
        /\ LandsInTree(Heap, nodeUp(Heap, N))
        /\ LandsInTree(Heap, nodeDown(Heap, N))
        /\ N = startNode(Heap, Root) => nodeLeft(Heap, N) = N
        /\ N = endNode(Heap, Root) => nodeRight(Heap, N) = N
        /\ ~InsideDivisionPart(Heap, N, 2, MaxIds) => nodeUp(Heap, N) = N
        /\ ~InsideDivisionPart(Heap, N, 1, MaxIds) => nodeDown(Heap, N) = N

\* nodeLeft(nodeRight(N)), Throws if either call throws.
RightThenLeft(h, N) ==
    IF nodeRight(h, N) = Throws THEN Throws ELSE nodeLeft(h, nodeRight(h, N))

\* C5 as stated: for every attached unit N that is not the last position of
\* the tree, nodeLeft(nodeRight(N)) = N.
C5_RightLeftReturns ==
    \A N \in AttachedUnits(Heap) :
        N # endNode(Heap, Root) => RightThenLeft(Heap, N) = N

\* C5, amended: for every attached unit N that is not the last position of
\* the tree, nodeLeft(nodeRight(N)) = N unless nodeRight(N) is a Division,
\* and then it is the last unit of that Division's numerator.  (nodeRight
\* lands on a Division from the end of its numerator and from the end of its
\* denominator, and nodeLeft of a Division always enters the numerator.)
C5_RightLeftReturnsOrEntersNumerator ==
    \A N \in AttachedUnits(Heap) :
        N # endNode(Heap, Root) =>
            /\ nodeRight(Heap, N) # Throws
            /\ IF kind[nodeRight(Heap, N)] = "division"
               THEN RightThenLeft(Heap, N) =
                        endNode(Heap, numerator(Heap, nodeRight(Heap, N)))
               ELSE RightThenLeft(Heap, N) = N

\* C5 is met where the round trip leaves an expression and comes back: N is
\* a unit typed at the end of a radicand, nodeRight(N) is the SquareRootNode
\* and nodeLeft of that is N again.
C5_Witness ==
    \E N \in AttachedUnits(Heap) :
        /\ parent[N] # Root
        /\ N = endNode(Heap, parent[N])
        /\ kind[N] = "bracket"
        /\ kind[parent[parent[N]]] = "squareroot"
        /\ nodeRight(Heap, N) = parent[parent[N]]
        /\ RightThenLeft(Heap, N) = N

\* The nodes of every expression other than e are in h what they are now.
OnlyChanged(h, e) == h.nodes = [nodes EXCEPT ![e] = h.nodes[e]]

\* s without the entries equal to x, the others in their order.
Without(s, x) == LET Other(y) == y # x IN SelectSeq(s, Other)

\* C6: delete() on an attached unit returns; the unit is no longer in the
\* nodes of its former parent, the other units of that sequence keep their
\* order, and the nodes of every other expression are unchanged.
C6_DeleteRemovesOnlyNode ==
    \A node \in AttachedUnits(Heap) :
        LET e == parent[node]
            r == delete(Heap, node)
        IN /\ r.ok
           /\ node \notin Range(r.h.nodes[e])
           /\ r.h.nodes[e] = Without(nodes[e], node)
           /\ OnlyChanged(r.h, e)

\* C6 is met on a unit between two others inside a fraction: delete() takes
\* it out and leaves its neighbours next to each other.
C6_Witness ==
    \E node \in AttachedUnits(Heap) :
        LET e == parent[node]
            index == FindIndex(nodes[e], node)
        IN /\ e # Root
           /\ 0 < index /\ index + 1 < Len(nodes[e])
           /\ delete(Heap, node).ok
           /\ delete(Heap, node).h.nodes[e] =
                  SubSeq(nodes[e], 1, index) \o SubSeq(nodes[e], index + 2, Len(nodes[e]))

\* The characters and names a formula gives to the classifier to obtain a
\* unit of each class.
SampleChars == {"x", "/"}
SampleNames == {"sqrt"}

\* newNode stands right after anchor in e, whose other units are those of
\* `before` in their order.
PlacedAfter(h, e, anchor, newNode, before) ==
    /\ h.parent[newNode] = e
    /\ FindIndex(h.nodes[e], newNode) = FindIndex(before, anchor) + 1
    /\ Without(h.nodes[e], newNode) = before

\* What MathInput.insert left when called by an inserting method: the new
\* unit right after the unit that was the cursor, in that unit's expression.
InsertedAtCursor(out) ==
    /\ out.ok
    /\ PlacedAfter(out.mid.h, parent[cursor], cursor, out.node, nodes[parent[cursor]])

\* C7: insertAfter with an attached anchor and a unit that was never
\* attached puts the unit at index(anchor) + 1 of the anchor's expression,
\* sets its parent to that expression, keeps the order of the units already
\* there and changes no other expression; and the host's insert puts each
\* new unit right after the cursor unit in the cursor's expression.
C7_InsertAfterPlacesNewNode ==
    /\ \A anchor \in AttachedUnits(Heap) :
          LET newNode == NextId(Heap)
              e == parent[anchor]
              r == insertAfter(buildFromCharacter(Heap, "x").h, anchor, newNode)
          IN /\ r.ok
             /\ PlacedAfter(r.h, e, anchor, newNode, nodes[e])
             /\ OnlyChanged(r.h, e)
    /\ \A c \in SampleChars : InsertedAtCursor(insertNodeByCharacter(Now, c))
    /\ \A name \in SampleNames : InsertedAtCursor(insertNodeByName(Now, name))

\* C7 is met with the cursor inside a child expression and a unit after it:
\* the unit typed goes between the two.
C7_Witness ==
    LET e == parent[cursor]
        index == FindIndex(nodes[e], cursor)
        out == insertNodeByCharacter(Now, "x")
    IN /\ e # Root
       /\ index # NotFound
       /\ index + 1 < Len(nodes[e])
       /\ out.ok
       /\ At(out.mid.h.nodes[e], index + 1) = out.node
       /\ At(out.mid.h.nodes[e], index + 2) = At(nodes[e], index + 1)

\* The number of places x has in the nodes of all expressions.
PlacesInTree(h, x) ==
    Cardinality({<<e, i>> \in Expressions(h) \X (1..MaxIds) :
                    i <= Len(h.nodes[e]) /\ h.nodes[e][i] = x})

\* C8: insertAfter with an attached anchor and an attached newNode moves
\* newNode: it returns, newNode is right after anchor with the anchor's
\* expression as parent, newNode has one place in the tree, and the number of
\* attached units is what it was.  (anchor.insertAfter(anchor) deletes the
\* anchor and then fails to find it; a unit given one of its own descendants
\* as anchor is cut from the tree.)
C8_InsertAfterMovesAttached ==
    \A anchor \in AttachedUnits(Heap), newNode \in AttachedUnits(Heap) \cap Held :
        LET e == parent[anchor]
            r == insertAfter(Heap, anchor, newNode)
        IN /\ r.ok
           /\ r.h.parent[newNode] = e
           /\ FindIndex(r.h.nodes[e], newNode) = FindIndex(r.h.nodes[e], anchor) + 1
           /\ PlacesInTree(r.h, newNode) = 1
           /\ Cardinality(AttachedUnits(r.h)) = Cardinality(AttachedUnits(Heap))

\* The state in which a "/" is typed at the end of an expression: the cursor
\* is the last unit of its expression.
CursorAtEnd == cursor = endNode(Heap, parent[cursor])

\* The units of e after its StartNode are digits and letters, at least one.
AtomsAfterStart(h, e) ==
    /\ Len(h.nodes[e]) >= 2
    /\ h.kind[h.nodes[e][1]] = "start"
    /\ \A i \in 2..Len(h.nodes[e]) :
          h.kind[h.nodes[e][i]] = "atom" /\ h.char[h.nodes[e][i]] \in Letters \cup Digits

\* The nodes of the numerator of d are its StartNode and then `moved`.
NumeratorHolds(h, d, moved) ==
    /\ h.kind[startNode(h, numerator(h, d))] = "start"
    /\ h.parent[startNode(h, numerator(h, d))] = numerator(h, d)
    /\ h.nodes[numerator(h, d)] = <<startNode(h, numerator(h, d))>> \o moved
    /\ \A i \in 1..Len(moved) : h.parent[moved[i]] = numerator(h, d)

\* C9: "/" typed at the end of an expression whose units after the StartNode
\* are n >= 1 digits and letters moves all n into the numerator of the new
\* Division in their order; collectNumerator returns true, the expression is
\* left as its StartNode and the Division, and the cursor is the StartNode of
\* the denominator.
C9_SlashCollectsAtoms ==
    (CursorAtEnd /\ AtomsAfterStart(Heap, parent[cursor])) =>
        LET e == parent[cursor]
            out == insertNodeByCharacter(Now, "/")
            d == out.node
        IN /\ out.ok
           /\ out.collected = "true"
           /\ NumeratorHolds(out.h, d, Tail(nodes[e]))
           /\ out.h.nodes[e] = <<nodes[e][1], d>>
           /\ out.cursor = startNode(out.h, denominator(out.h, d))
           /\ out.h.kind[out.cursor] = "start"

\* C9 has happened: a Division stands alone after the StartNode of its
\* expression, two atoms are in its numerator and the cursor is the
\* StartNode of its denominator.
C9_Witness ==
    \E d \in AttachedUnits(Heap) :
        /\ kind[d] = "division"
        /\ Len(nodes[parent[d]]) = 2
        /\ Len(nodes[numerator(Heap, d)]) = 3
        /\ AtomsAfterStart(Heap, numerator(Heap, d))
        /\ cursor = startNode(Heap, denominator(Heap, d))
        /\ nodes[denominator(Heap, d)] = <<cursor>>

\* The position of the "(" that matches the ")" at position i of str: the
\* nearest position to the left from which to i there are as many "(" as
\* ")".  NullPos if there is none.
CountIn(str, lo, hi, c) == Cardinality({k \in lo..hi : At(str, k) = c})
MatchingOpen(str, i) ==
    LET balanced == {j \in 0..(i - 1) : CountIn(str, j, i, "(") = CountIn(str, j, i, ")")}
    IN IF balanced = {} THEN NullPos
       ELSE CHOOSE j \in balanced : \A k \in balanced : k <= j

\* The precis of the expression of the cursor, up to the cursor.
CursorPrecis == PrecisUpTo(Heap, cursor)

\* The cursor is a ")" at the end of its expression and its "(" is there.
CursorClosesParen ==
    /\ CursorAtEnd
    /\ kind[cursor] = "bracket" /\ char[cursor] = ")"
    /\ MatchingOpen(CursorPrecis, Len(CursorPrecis) - 1) # NullPos

\* C10: when the unit before a new Division is a ")" whose "(" is among the
\* units before it, collectNumerator moves the units from that "(" to the ")"
\* into the numerator in their order, leaves the units left of the "(" where
\* they are, and returns true.
C10_SlashCollectsParenthesized ==
    CursorClosesParen =>
        LET e == parent[cursor]
            open == MatchingOpen(CursorPrecis, Len(CursorPrecis) - 1)
            out == insertNodeByCharacter(Now, "/")
            d == out.node
        IN /\ out.ok
           /\ out.collected = "true"
           /\ NumeratorHolds(out.h, d, SubSeq(nodes[e], open + 1, Len(nodes[e])))
           /\ out.h.nodes[e] = SubSeq(nodes[e], 1, open) \o <<d>>

\* C10 is met with a unit between the StartNode and the "(": it stays.
C10_Witness ==
    /\ CursorClosesParen
    /\ MatchingOpen(CursorPrecis, Len(CursorPrecis) - 1) = 2
    /\ Len(insertNodeByCharacter(Now, "/").h.nodes[parent[cursor]]) = 3
    /\ C10_SlashCollectsParenthesized

-----------------------------------------------------------------------------
(* Serialisation and the attributes of the host element.                   *)

\* updateValue has run since the element was constructed.
Updated == value # NoValue

\* C11: whenever serialising the root fails, updateValue catches it: once
\* updateValue has run, no handler is left that has not returned, a tree
\* whose serialisation does not return a string has the value attribute ''
\* and the error class set, and a tree whose serialisation returns a string
\* has that string as its value and the error class cleared.
C11_SerializeFailureReported ==
    /\ ~busy
    /\ Updated /\ updateValue(Heap).status # "returns" => value = <<>> /\ error
    /\ Updated /\ updateValue(Heap).status = "returns" =>
           value = updateValue(Heap).string /\ ~error

\* C12: ExpressionNode.value terminates on every reachable tree: no handler
\* is left inside a serialisation, and serialising the tree of the state
\* returns a string or throws.
C12_ValueTerminates ==
    /\ ~busy
    /\ updateValue(Heap).status \in {"returns", "throws"}
-----------------------------------------------------------------------------
(* The grammar of _parse, on the precis of the root.                       *)

\* The precis of the root after the "_" of its StartNode, which _parse drops
\* first; the unit at position i of it is nodes[i + 1].
RootPrecis == SliceFrom([i \in 1..Len(nodes[Root]) |-> precisOf(Heap, nodes[Root][i])], 1)

\* The serialisation of the part of RootPrecis from position `from` up to,
\* not including, position `to`.
Serialized(from, to) == parse(Heap, Root, Slice(RootPrecis, from, to), from + 1, <<>>)

\* The root holds only atoms: no parenthesis, pipe, fraction, root or
\* exponent.
BracketFree ==
    \A i \in 1..Len(RootPrecis) : RootPrecis[i] \notin {"(", ")", "|", "%", "^", "_"}

\* <apply> tag a b </apply>
Apply2(tag, a, b) == <<"<apply>", tag>> \o a \o b \o <<"</apply>">>
\* <apply> tag a </apply>
Apply1(tag, a) == <<"<apply>", tag>> \o a \o <<"</apply>">>

\* The split of RootPrecis at position k (counted from 0) holding "+" or
\* "-": the value is the operator applied to the values of both sides, and
\* there is no value when a side has none.
SplitAt(k) ==
    LET lhs == Serialized(0, k)
        rhs == Serialized(k + 1, Len(RootPrecis))
        tag == IF At(RootPrecis, k) = "+" THEN "<plus/>" ELSE "<minus/>"
    IN IF lhs.status = "returns" /\ rhs.status = "returns"
       THEN expressionValue(Heap, Root) = Returns(Apply2(tag, lhs.string, rhs.string))
       ELSE expressionValue(Heap, Root).status = "throws"

\* C13: a bracket-free chain of terms joined by "+" and "-" is split at the
\* last "+" or "-" that is not at position 0, so that it nests to the left:
\* 1-x+1 is plus(minus(1, x), 1).
C13_SplitsAtLastPlusMinus ==
    /\ BracketFree =>
           \A k \in 1..(Len(RootPrecis) - 1) :
               /\ At(RootPrecis, k) \in {"+", "-"}
               /\ \A j \in (k + 1)..(Len(RootPrecis) - 1) : At(RootPrecis, j) \notin {"+", "-"}
               => SplitAt(k)
    /\ RootPrecis = <<"1", "-", "x", "+", "1">> =>
           expressionValue(Heap, Root) =
               Returns(Apply2("<plus/>",
                              Apply2("<minus/>", <<"<cn>", "1", "</cn>">>, <<"<ci>", "x", "</ci>">>),
                              <<"<cn>", "1", "</cn>">>))

\* A chain of three terms has been typed and serialised.
C13_Witness ==
    /\ RootPrecis = <<"1", "-", "x", "+", "1">>
    /\ value = Apply2("<plus/>",
                       Apply2("<minus/>", <<"<cn>", "1", "</cn>">>, <<"<ci>", "x", "</ci>">>),
                       <<"<cn>", "1", "</cn>">>)
    /\ ~error

\* Positions a < b of RootPrecis hold a "(" and the ")" that closes it.
MatchedSpan(a, b) ==
    /\ At(RootPrecis, a) = "(" /\ At(RootPrecis, b) = ")"
    /\ CountIn(RootPrecis, a, b, "(") = CountIn(RootPrecis, a, b, ")")
    /\ \A c \in a..(b - 1) : CountIn(RootPrecis, a, c, "(") > CountIn(RootPrecis, a, c, ")")

\* Position k lies inside a matched parenthesis span.
InsideSpan(k) ==
    \E a \in 0..(k - 1), b \in (k + 1)..(Len(RootPrecis) - 1) : MatchedSpan(a, b)

\* Every parenthesis of RootPrecis has its partner, and there is nothing
\* but atoms and parentheses.
ParenthesesMatched ==
    /\ \A i \in 1..Len(RootPrecis) : RootPrecis[i] \notin {"|", "%", "^", "_"}
    /\ \A i \in 0..(Len(RootPrecis) - 1) :
           /\ At(RootPrecis, i) = "(" => \E b \in (i + 1)..(Len(RootPrecis) - 1) : MatchedSpan(i, b)
           /\ At(RootPrecis, i) = ")" => \E a \in 0..(i - 1) : MatchedSpan(a, i)

\* Position k holds a "+" or "-" outside every span, and no later position
\* does.
LastTopLevelPlusMinus(k) ==
    /\ At(RootPrecis, k) \in {"+", "-"} /\ ~InsideSpan(k)
    /\ \A j \in (k + 1)..(Len(RootPrecis) - 1) :
           At(RootPrecis, j) \in {"+", "-"} => InsideSpan(j)

XPlusX == Apply2("<plus/>", <<"<ci>", "x", "</ci>">>, <<"<ci>", "x", "</ci>">>)

\* C14: an operator inside a matched parenthesis span is never the split
\* point of the enclosing scan: the split is at the last "+" or "-" outside
\* every span; and a matched span ( S ) serialises to the serialisation of S
\* with no wrapper: (x) is ci(x) and x-(x+x) is minus(x, plus(x, x)).
C14_SpansHiddenAndUnwrapped ==
    /\ ParenthesesMatched =>
           \A k \in 1..(Len(RootPrecis) - 1) : LastTopLevelPlusMinus(k) => SplitAt(k)
    /\ ParenthesesMatched /\ Len(RootPrecis) >= 2 /\ MatchedSpan(0, Len(RootPrecis) - 1) =>
           expressionValue(Heap, Root) = Serialized(1, Len(RootPrecis) - 1)
    /\ RootPrecis = <<"(", "x", ")">> =>
           expressionValue(Heap, Root) = Returns(<<"<ci>", "x", "</ci>">>)
    /\ RootPrecis = <<"(", "x", "+", "x", ")">> => expressionValue(Heap, Root) = Returns(XPlusX)
    /\ RootPrecis = <<"x", "-", "(", "x", "+", "x", ")">> =>
           expressionValue(Heap, Root) = Returns(Apply2("<minus/>", <<"<ci>", "x", "</ci>">>, XPlusX))

\* A sum in parentheses behind an operator has been typed and serialised:
\* the split is at the first operator, not at the one in the span.
C14_Witness ==
    /\ RootPrecis = <<"-", "(", "x", "+", "x", ")">>
    /\ value = Apply1("<minus/>", XPlusX)
    /\ ~error

\* RootPrecis starts with "-", and what follows has every parenthesis
\* matched and no "+", "-" or "*" outside the spans.
LeadingMinus ==
    /\ ParenthesesMatched
    /\ Len(RootPrecis) >= 2 /\ RootPrecis[1] = "-"
    /\ \A k \in 1..(Len(RootPrecis) - 1) :
           At(RootPrecis, k) \in {"+", "-", "*"} => InsideSpan(k)

\* The position behind the term that starts at position `from` of
\* RootPrecis: a number, a parenthesis span, or one letter.
TermEnd(from) ==
    IF At(RootPrecis, from) \in Digits THEN from + NumberLength(SliceFrom(RootPrecis, from))
    ELSE IF At(RootPrecis, from) = "("
    THEN 1 + (CHOOSE b \in (from + 1)..(Len(RootPrecis) - 1) : MatchedSpan(from, b))
    ELSE from + 1

\* C16, as claimed: a "-" at position 0 whose remainder R has no top-level
\* "+", "-" or "*" is a unary minus applied to the whole of R: the value is
\* minus(serialize(R)).
C16_MinusWrapsRemainder ==
    LeadingMinus /\ Serialized(1, Len(RootPrecis)).status = "returns" =>
        expressionValue(Heap, Root) =
            Returns(Apply1("<minus/>", Serialized(1, Len(RootPrecis)).string))

\* C16, amended: the unary minus is applied to the first term of R.  When R
\* is that one term the value is minus(serialize(R)); when more follows it
\* is times(minus(serialize(term)), serialize(rest)); and there is no value
\* when R has none.
C16_MinusWrapsLeadingTerm ==
    LeadingMinus =>
        IF Serialized(1, Len(RootPrecis)).status # "returns"
        THEN expressionValue(Heap, Root).status = "throws"
        ELSE IF TermEnd(1) = Len(RootPrecis)
        THEN expressionValue(Heap, Root) =
                 Returns(Apply1("<minus/>", Serialized(1, Len(RootPrecis)).string))
        ELSE expressionValue(Heap, Root) =
                 Returns(Apply2("<times/>",
                                Apply1("<minus/>", Serialized(1, TermEnd(1)).string),
                                Serialized(TermEnd(1), Len(RootPrecis)).string))

\* A sign in front of a product of two terms has been typed and serialised.
C16_Witness ==
    /\ RootPrecis = <<"-", "1", "x">>
    /\ value = Apply2("<times/>", Apply1("<minus/>", <<"<cn>", "1", "</cn>">>), <<"<ci>", "x", "</ci>">>)
    /\ ~error

\* RootPrecis is a run of digits, or two of them with a "." between.
IsNumber ==
    /\ RootPrecis # <<>>
    /\ \A i \in 1..Len(RootPrecis) : RootPrecis[i] \in Digits \cup {"."}
    /\ RootPrecis[1] \in Digits /\ RootPrecis[Len(RootPrecis)] \in Digits
    /\ Cardinality({i \in 1..Len(RootPrecis) : RootPrecis[i] = "."}) <= 1

\* How often the tag occurs in the string.
TagCount(str, tag) == Cardinality({i \in 1..Len(str) : str[i] = tag})

\* The places of RootPrecis that spell the constant: the atoms of the Greek
\* letter, and each "p" with an "i" behind it.
PiPlaces ==
    {i \in 1..Len(RootPrecis) : RootPrecis[i] = "PI"}
        \cup {i \in 1..(Len(RootPrecis) - 1) : RootPrecis[i] = "p" /\ RootPrecis[i + 1] = "i"}

\* C15: a single term serialises as follows: digits with an optional
\* fraction give <cn>literal</cn>; "p","i" and the Greek letter give <pi/>;
\* "e" gives <exponentiale/>; the infinity sign gives <infinity/>; any other
\* single letter c gives <ci>c</ci>; the constants come before the
\* identifiers; and a Greek pi behind other symbols leaves those symbols
\* what they are: a value holds one <pi/> for each place that spells it.
C15_SingleTerms ==
    /\ IsNumber => expressionValue(Heap, Root) = Returns(<<"<cn>">> \o RootPrecis \o <<"</cn>">>)
    /\ RootPrecis \in {<<"p", "i">>, <<"PI">>} => expressionValue(Heap, Root) = Returns(<<"<pi/>">>)
    /\ RootPrecis = <<"e">> => expressionValue(Heap, Root) = Returns(<<"<exponentiale/>">>)
    /\ RootPrecis = <<"INF">> => expressionValue(Heap, Root) = Returns(<<"<infinity/>">>)
    /\ Len(RootPrecis) = 1 /\ RootPrecis[1] \in Letters \ {"e", "PI"} =>
           expressionValue(Heap, Root) = Returns(<<"<ci>", RootPrecis[1], "</ci>">>)
    /\ Len(RootPrecis) = 2 /\ RootPrecis[1] \in (Letters \cup Digits) \ {"PI"} /\ RootPrecis[2] = "PI" =>
           expressionValue(Heap, Root) =
               Returns(Apply2("<times/>", Serialized(0, 1).string, <<"<pi/>">>))
    /\ BracketFree /\ expressionValue(Heap, Root).status = "returns" =>
           TagCount(expressionValue(Heap, Root).string, "<pi/>") = Cardinality(PiPlaces)

\* A number with a fraction has been typed and serialised.
C15_Witness ==
    /\ RootPrecis = <<"1", ".", "1">>
    /\ value = <<"<cn>", "1", ".", "1", "</cn>">>
    /\ ~error

\* The tag of the function spelt at position `from` of RootPrecis, or ""
\* when none is.
FunctionAt(from) ==
    IF StartsWith(SliceFrom(RootPrecis, from), <<"s", "i", "n">>) THEN "<sin/>"
    ELSE IF StartsWith(SliceFrom(RootPrecis, from), <<"c", "o", "s">>) THEN "<cos/>"
    ELSE IF StartsWith(SliceFrom(RootPrecis, from), <<"t", "a", "n">>) THEN "<tan/>"
    ELSE IF StartsWith(SliceFrom(RootPrecis, from), <<"l", "n">>) THEN "<ln/>"
    ELSE ""

\* The length of the name of the function with that tag.
NameLength(tag) == IF tag = "<ln/>" THEN 2 ELSE 3

\* The position behind the term that starts at `from`, the names of
\* functions in front of it included.
RECURSIVE AppliedTermEnd(_)
AppliedTermEnd(from) ==
    IF from >= Len(RootPrecis) THEN from
    ELSE IF FunctionAt(from) # "" THEN AppliedTermEnd(from + NameLength(FunctionAt(from)))
    ELSE TermEnd(from)

SinOfX == Apply1("<sin/>", <<"<ci>", "x", "</ci>">>)

TermsOnly ==
    /\ \A i \in 1..Len(RootPrecis) : RootPrecis[i] \notin {"|", "%", "_", "+", "-", "*", "."}
    /\ \A i \in 0..(Len(RootPrecis) - 1) :
           /\ At(RootPrecis, i) = "(" => \E b \in (i + 1)..(Len(RootPrecis) - 1) : MatchedSpan(i, b)
           /\ At(RootPrecis, i) = ")" => \E a \in 0..(i - 1) : MatchedSpan(a, i)

\* The position behind the term that starts at `from` and the "^" that
\* follows it, if one does.
PoweredTermEnd(from) ==
    IF TermEnd(from) < Len(RootPrecis) /\ At(RootPrecis, TermEnd(from)) = "^"
    THEN TermEnd(from) + 1
    ELSE TermEnd(from)

\* C18: when the leading term with its postModifier does not consume the
\* whole precis and no operator separates it from the rest, the value is
\* times(term, serialize(rest)), so that adjacent terms nest to the right:
\* 1x is times(1, x) and 1xx is times(1, times(x, x)); there is no value
\* when the term or the rest has none.
C18_ImplicitTimesNestsRight ==
    /\ TermsOnly /\ RootPrecis # <<>> /\ PoweredTermEnd(0) < Len(RootPrecis) =>
           IF /\ Serialized(0, PoweredTermEnd(0)).status = "returns"
              /\ Serialized(PoweredTermEnd(0), Len(RootPrecis)).status = "returns"
           THEN expressionValue(Heap, Root) =
                    Returns(Apply2("<times/>",
                                   Serialized(0, PoweredTermEnd(0)).string,
                                   Serialized(PoweredTermEnd(0), Len(RootPrecis)).string))
           ELSE expressionValue(Heap, Root).status = "throws"
    /\ RootPrecis = <<"1", "x">> =>
           expressionValue(Heap, Root) =
               Returns(Apply2("<times/>", <<"<cn>", "1", "</cn>">>, <<"<ci>", "x", "</ci>">>))
    /\ RootPrecis = <<"1", "x", "x">> =>
           expressionValue(Heap, Root) =
               Returns(Apply2("<times/>", <<"<cn>", "1", "</cn>">>,
                              Apply2("<times/>", <<"<ci>", "x", "</ci>">>, <<"<ci>", "x", "</ci>">>)))

\* Three adjacent terms have been typed and serialised.
C18_Witness ==
    /\ RootPrecis = <<"1", "x", "x">>
    /\ value = Apply2("<times/>", <<"<cn>", "1", "</cn>">>,
                       Apply2("<times/>", <<"<ci>", "x", "</ci>">>, <<"<ci>", "x", "</ci>">>))
    /\ ~error

\* The ExponentNode at position k of RootPrecis, and the value of its
\* expression.
ExponentAt(k) == At(nodes[Root], k + 1)
ExponentValue(k) == expressionValue(Heap, inner(Heap, ExponentAt(k)))

\* The positions of RootPrecis where a term starts: 0, and each position
\* behind a term and its "^".
RECURSIVE TermStartsFrom(_)
TermStartsFrom(from) ==
    IF from >= Len(RootPrecis) THEN {}
    ELSE {from} \cup TermStartsFrom(PoweredTermEnd(from))

\* The term that starts at position s is followed by an ExponentNode: from
\* s on the value is power(term, exponent), multiplied with what follows,
\* and there is none when the term, the exponent or the rest has none.
PowerOfTermAt(s) ==
    LET base == Serialized(s, TermEnd(s))
        exponent == ExponentValue(TermEnd(s))
        rest == Serialized(TermEnd(s) + 1, Len(RootPrecis))
        all == Serialized(s, Len(RootPrecis))
    IN IF base.status # "returns" \/ exponent.status # "returns" THEN all.status = "throws"
       ELSE IF TermEnd(s) + 1 = Len(RootPrecis)
       THEN all = Returns(Apply2("<power/>", base.string, exponent.string))
       ELSE IF rest.status # "returns" THEN all.status = "throws"
       ELSE all = Returns(Apply2("<times/>",
                                 Apply2("<power/>", base.string, exponent.string),
                                 rest.string))

\* C19: a term followed by an ExponentNode serialises as power(term, value
\* of the exponent), the base being the one term in front of the exponent
\* (a whole number, one identifier, one parenthesis span) and not the
\* product in front of it: 1 with exponent x is power(1, x), and 1 x with
\* an exponent is times(1, power(x, exponent)).
C19_ExponentTakesPrecedingTerm ==
    /\ TermsOnly =>
           \A s \in TermStartsFrom(0) :
               At(RootPrecis, s) # "^" /\ TermEnd(s) < Len(RootPrecis)
                   /\ At(RootPrecis, TermEnd(s)) = "^"
               => kind[ExponentAt(TermEnd(s))] = "exponent" /\ PowerOfTermAt(s)
    /\ RootPrecis = <<"1", "^">> /\ ExponentValue(1).status = "returns" =>
           expressionValue(Heap, Root) =
               Returns(Apply2("<power/>", <<"<cn>", "1", "</cn>">>, ExponentValue(1).string))
    /\ RootPrecis = <<"1", "x", "^">> /\ ExponentValue(2).status = "returns" =>
           expressionValue(Heap, Root) =
               Returns(Apply2("<times/>", <<"<cn>", "1", "</cn>">>,
                              Apply2("<power/>", <<"<ci>", "x", "</ci>">>, ExponentValue(2).string)))
    /\ RootPrecis = <<"1", "1", "^">> /\ ExponentValue(2).status = "returns" =>
           expressionValue(Heap, Root) =
               Returns(Apply2("<power/>", <<"<cn>", "1", "1", "</cn>">>, ExponentValue(2).string))

\* 1, x and an exponent holding 1 have been typed and serialised.
C19_Witness ==
    /\ RootPrecis = <<"1", "x", "^">>
    /\ ExponentValue(2) = Returns(<<"<cn>", "1", "</cn>">>)
    /\ value = Apply2("<times/>", <<"<cn>", "1", "</cn>">>,
                       Apply2("<power/>", <<"<ci>", "x", "</ci>">>, <<"<cn>", "1", "</cn>">>))
    /\ ~error

-----------------------------------------------------------------------------
(* Fractions and square roots.                                             *)

\* The precis of expression e, without its StartNode.
PrecisIn(e) == SliceFrom([i \in 1..Len(nodes[e]) |-> precisOf(Heap, nodes[e][i])], 1)

\* The DivisionNodes and the SquareRootNodes of the tree.
Divisions == {u \in Allocated(Heap) : kind[u] = "division"}
SquareRoots == {u \in Allocated(Heap) : kind[u] = "squareroot"}

\* <apply><divide/> n d </apply> is the value of division u, n and d being
\* the values of its numerator and its denominator; there is none when a
\* child has none.
DivideOfChildren(u) ==
    LET n == expressionValue(Heap, sub[u][1])
        d == expressionValue(Heap, sub[u][2])
    IN IF n.status = "returns" /\ d.status = "returns"
       THEN unitValue(Heap, u) = Returns(Apply2("<divide/>", n.string, d.string))
       ELSE unitValue(Heap, u).status = "throws"

\* <apply><root/><degree><cn>2</cn></degree> r </apply> is the value of
\* square root u, r being the value of its radicand; there is none when the
\* radicand has none.
RootOfRadicand(u) ==
    LET r == expressionValue(Heap, sub[u][1])
    IN IF r.status = "returns"
       THEN unitValue(Heap, u) =
                Returns(<<"<apply>", "<root/>", "<degree>", "<cn>", "2", "</cn>", "</degree>">>
                            \o r.string \o <<"</apply>">>)
       ELSE unitValue(Heap, u).status = "throws"

OneOverMinusX ==
    Apply2("<divide/>", <<"<cn>", "1", "</cn>">>, Apply1("<minus/>", <<"<ci>", "x", "</ci>">>))

\* C20: the value of a DivisionNode is <apply><divide/>, the value of its
\* numerator, the value of its denominator, </apply>; the value of a
\* SquareRootNode is <apply><root/><degree><cn>2</cn></degree>, the value
\* of its radicand, </apply>.  Each child is serialised on its own: a
\* denominator -x is minus(x) whatever the numerator is, and 1 over -x is
\* divide(1, minus(x)).
C20_DivisionAndRootValues ==
    /\ \A u \in Divisions : DivideOfChildren(u)
    /\ \A u \in SquareRoots : RootOfRadicand(u)
    /\ \A u \in Divisions :
           PrecisIn(sub[u][2]) = <<"-", "x">> =>
               expressionValue(Heap, sub[u][2]) = Returns(Apply1("<minus/>", <<"<ci>", "x", "</ci>">>))
    /\ \A u \in Divisions :
           PrecisIn(sub[u][1]) = <<"1">> /\ PrecisIn(sub[u][2]) = <<"-", "x">> =>
               unitValue(Heap, u) = Returns(OneOverMinusX)

\* A square root has been inserted and 1, a slash, a minus sign and x typed
\* into it: the root of 1 over -x has been serialised.
C20_Witness ==
    /\ RootPrecis = <<"%">>
    /\ \E r \in SquareRoots, d \in Divisions :
           /\ PrecisIn(sub[r][1]) = <<"%">>
           /\ parent[d] = sub[r][1]
           /\ PrecisIn(sub[d][1]) = <<"1">>
           /\ PrecisIn(sub[d][2]) = <<"-", "x">>
    /\ value = <<"<apply>", "<root/>", "<degree>", "<cn>", "2", "</cn>", "</degree>">>
                   \o OneOverMinusX \o <<"</apply>">>
    /\ ~error

-----------------------------------------------------------------------------
(* Absolute values.                                                        *)

\* Every parenthesis of RootPrecis has its partner, and there is nothing
\* but atoms, parentheses and pipes.
ParenthesesPaired ==
    /\ \A i \in 1..Len(RootPrecis) : RootPrecis[i] \notin {"%", "^", "_"}
    /\ \A i \in 0..(Len(RootPrecis) - 1) :
           /\ At(RootPrecis, i) = "(" => \E b \in (i + 1)..(Len(RootPrecis) - 1) : MatchedSpan(i, b)
           /\ At(RootPrecis, i) = ")" => \E a \in 0..(i - 1) : MatchedSpan(a, i)

\* The positions of the pipes of RootPrecis that no parenthesis span holds.
TopLevelPipes == {k \in 0..(Len(RootPrecis) - 1) : At(RootPrecis, k) = "|" /\ ~InsideSpan(k)}

\* Position k lies between a pipe and the pipe that closes it, the pipes
\* of a string without parentheses being paired off from the start.
InsidePipes(k) == CountIn(RootPrecis, 0, k, "|") % 2 = 1

AbsOfX == Apply1("<abs/>", <<"<ci>", "x", "</ci>">>)

\* C21: a matched pair of pipes around S serialises as abs(serialisation of
\* S), and an operator between the two pipes is not a split point of the
\* scan outside them: |x| is abs(x) and |x+x| is abs(plus(x, x)).
C21_PipeSpanIsAbs ==
    /\ ( /\ ParenthesesPaired
         /\ Len(RootPrecis) >= 2
         /\ TopLevelPipes = {0, Len(RootPrecis) - 1}
         /\ Serialized(1, Len(RootPrecis) - 1).status = "returns" ) =>
           expressionValue(Heap, Root) =
               Returns(Apply1("<abs/>", Serialized(1, Len(RootPrecis) - 1).string))
    /\ ( /\ \A i \in 1..Len(RootPrecis) : RootPrecis[i] \in {"|", "x", "+"}
         /\ CountIn(RootPrecis, 0, Len(RootPrecis) - 1, "|") % 2 = 0 ) =>
           \A k \in 1..(Len(RootPrecis) - 1) :
               ( /\ At(RootPrecis, k) = "+" /\ ~InsidePipes(k)
                 /\ \A j \in (k + 1)..(Len(RootPrecis) - 1) :
                        At(RootPrecis, j) = "+" => InsidePipes(j) )
               => SplitAt(k)
    /\ RootPrecis = <<"|", "x", "|">> => expressionValue(Heap, Root) = Returns(AbsOfX)
    /\ RootPrecis = <<"|", "x", "+", "x", "|">> =>
           expressionValue(Heap, Root) = Returns(Apply1("<abs/>", XPlusX))

-----------------------------------------------------------------------------
(* The classifier and the keys the field does not know.                    *)

\* What a classifier call gave: the class and the character of the unit it
\* built in cell NextId(Heap), or "error" when it threw.
Classified(r) ==
    IF r.ok THEN <<r.h.kind[NextId(Heap)], r.h.char[NextId(Heap)]>> ELSE <<"error", "">>

\* Single characters of the atom class, and inputs the classifier does not
\* know: other characters, names of keys, names of symbols, two digits.
AtomSamples == {"0", "1", "x", "Z", "PI", ".", "+", "-", "*"}
HandledKeys == {"ArrowLeft", "ArrowRight", "ArrowUp", "ArrowDown", "Backspace"}
UnknownKeys == {"Shift", "Enter", "$", " ", "INF", "sqrt", "pi", "12"}
UnknownNames == {"x", "1", "root", "PI", "Shift"}

\* The classes buildFromCharacter and buildFromName give, and the error for
\* everything else.
ClassifierClasses ==
    /\ \A c \in AtomSamples : Classified(buildFromCharacter(Heap, c)) = <<"atom", c>>
    /\ Classified(buildFromCharacter(Heap, "/")) = <<"division", "">>
    /\ \A c \in {"(", ")"} : Classified(buildFromCharacter(Heap, c)) = <<"bracket", c>>
    /\ Classified(buildFromCharacter(Heap, "|"))[1] = "absolute"
    /\ Classified(buildFromCharacter(Heap, "^")) = <<"exponent", "">>
    /\ Classified(buildFromName(Heap, "sqrt")) = <<"squareroot", "">>
    /\ Classified(buildFromName(Heap, "pi")) = <<"atom", "PI">>
    /\ Classified(buildFromName(Heap, "infty")) = <<"atom", "INF">>
    /\ \A c \in UnknownKeys \cup HandledKeys : ~buildFromCharacter(Heap, c).ok
    /\ \A name \in UnknownNames : ~buildFromName(Heap, name).ok

\* keydown with this key leaves the tree, the cursor and the value.
KeyIgnored(key) ==
    LET out == keydown(Now, key)
    IN out.h = Heap /\ out.cursor = cursor /\ out.update.status = "none"

\* C23 as stated: the classes of the classifier, an error for every other
\* input, and a keydown with an input the classifier rejects changes
\* nothing.
C23_RejectedKeysChangeNothing ==
    /\ ClassifierClasses
    /\ \A key \in UnknownKeys \cup HandledKeys : KeyIgnored(key)

\* C23 amended: a keydown with an input the classifier rejects changes
\* nothing unless the key is an arrow key or Backspace, which the handler
\* goes on to serve.
C23_UnknownKeysChangeNothing ==
    /\ ClassifierClasses
    /\ \A key \in UnknownKeys : KeyIgnored(key)

\* An atom and a fraction have been built and inserted, the cursor is
\* inside the fraction, and a key the field does not know comes.
C23_Witness ==
    /\ \E a, d \in AttachedUnits(Heap) : kind[a] = "atom" /\ kind[d] = "division"
    /\ parent[cursor] # Root
    /\ KeyIgnored("Shift")
    /\ ~buildFromCharacter(Heap, "Shift").ok

-----------------------------------------------------------------------------
(* Backspace.                                                              *)

\* u is the first of the nodes of its expression.
FirstOfItsExpression(u) == nodes[parent[u]][1] = u

\* C24: previousSibling of a unit is null exactly when the unit is at index
\* 0 of its expression, and Backspace with the cursor on such a unit
\* changes no nodes sequence, nor the cursor, nor the value attribute.
C24_BackspaceAtStartIsNoOp ==
    /\ \A u \in AttachedUnits(Heap) :
           (previousSibling(Heap, u) = Null) <=> FirstOfItsExpression(u)
    /\ FirstOfItsExpression(cursor) =>
           LET out == keydown(Now, "Backspace")
           IN /\ out.h.nodes = nodes
              /\ out.cursor = cursor
              /\ out.update.status = "none"

\* The cursor is on the StartNode of a child expression of a unit that has
\* units on both sides, and Backspace changes nothing.
C24_Witness ==
    /\ kind[cursor] = "start"
    /\ parent[cursor] # Root
    /\ Len(nodes[Root]) = 3
    /\ nodes[Root][2] = parent[parent[cursor]]
    /\ keydown(Now, "Backspace").h = Heap
    /\ keydown(Now, "Backspace").cursor = cursor

\* What Backspace leaves when the cursor is on C and P is the unit before C
\* in expression e: e without C, everything else where it was, the child
\* expressions of C out of the tree with C, and the cursor on P.
RemovesCursorUnit(out, C, P, e) ==
    /\ out.h.nodes[e] = Without(nodes[e], C)
    /\ Len(out.h.nodes[e]) = Len(nodes[e]) - 1
    /\ OnlyChanged(out.h, e)
    /\ out.h.sub = sub
    /\ ~Attached(out.h, C)
    /\ \A i \in 1..Len(sub[C]) : ~Attached(out.h, sub[C][i])
    /\ out.cursor = P
    /\ Attached(out.h, P)

\* C25: Backspace with the cursor on a unit C that has a previous sibling P
\* removes C, and with it the expressions C owns, from C's expression and
\* nothing else, and the cursor ends on P.
C25_BackspaceRemovesCursorUnit ==
    LET P == previousSibling(Heap, cursor)
    IN P \notin {Null, Throws} =>
           RemovesCursorUnit(keydown(Now, "Backspace"), cursor, P, parent[cursor])

\* The cursor is on a fraction that holds a unit and stands behind the
\* StartNode of the root: Backspace takes the fraction and its content out.
C25_Witness ==
    /\ kind[cursor] = "division"
    /\ parent[cursor] = Root
    /\ Len(nodes[sub[cursor][1]]) = 2
    /\ previousSibling(Heap, cursor) = startNode(Heap, Root)
    /\ keydown(Now, "Backspace").h.nodes[Root] = <<startNode(Heap, Root)>>
    /\ keydown(Now, "Backspace").cursor = startNode(Heap, Root)

-----------------------------------------------------------------------------
(* Navigation in and out of composites.                                    *)

\* The Divisions, Exponents and SquareRoots of the tree.
Composites == {c \in AttachedUnits(Heap) : kind[c] \in CompositeKinds}

\* The last unit of expression e.
LastUnit(e) == nodes[e][Len(nodes[e])]

\* C26: nodeRight on the last unit of a child expression of a Division, an
\* Exponent or a SquareRoot returns that composite unit: not the unit next
\* to the composite, and from a numerator not a unit of the denominator.
C26_RightFromChildEndIsComposite ==
    \A c \in Composites :
        \A i \in 1..Len(sub[c]) : nodeRight(Heap, LastUnit(sub[c][i])) = c

\* A fraction has a unit behind it: nodeRight from the end of the numerator
\* is the fraction, neither the unit behind it nor the StartNode of the
\* denominator.
C26_Witness ==
    \E d \in Composites :
        /\ kind[d] = "division"
        /\ Len(nodes[parent[d]]) = 3
        /\ nodes[parent[d]][2] = d
        /\ nodeRight(Heap, LastUnit(sub[d][1])) = d
        /\ nodeRight(Heap, LastUnit(sub[d][2])) = d

\* x lies in the subtree of expression e: the parents of x lead to e.
RECURSIVE WithinFuel(_, _, _)
WithinFuel(x, e, fuel) ==
    IF x = e THEN TRUE
    ELSE IF fuel = 0 \/ parent[x] = Null THEN FALSE
    ELSE WithinFuel(parent[x], e, fuel - 1)

Within(x, e) == WithinFuel(x, e, MaxIds)

\* The Divisions in whose numerator (which = 1) or denominator (which = 2)
\* subtree u lies, and the nearest of a set of Divisions around u: the one
\* inside all the others.
DivisionsAround(u, which) == {d \in Composites : kind[d] = "division" /\ Within(u, sub[d][which])}
Nearest(S) == CHOOSE d \in S : \A other \in S \ {d} : Within(d, sub[other][1]) \/ Within(d, sub[other][2])

\* The StartNode of expression e where every expression keeps its own: the
\* unit of class StartNode that is the first of e.  Null if the first unit
\* of e is no StartNode.
StartNodeOf(e) == IF kind[nodes[e][1]] = "start" THEN nodes[e][1] ELSE Null

\* C27: nodeDown of an attached unit is the StartNode of the denominator of
\* the nearest Division in whose numerator subtree the unit lies, nodeUp
\* the StartNode of the numerator of the nearest Division in whose
\* denominator subtree it lies, whatever Exponents, SquareRoots and other
\* Divisions lie between; where there is no such Division the unit itself.
C27_UpDownThroughDivisions ==
    \A u \in AttachedUnits(Heap) :
        /\ nodeDown(Heap, u) =
               (IF DivisionsAround(u, 1) = {} THEN u
                ELSE StartNodeOf(sub[Nearest(DivisionsAround(u, 1))][2]))
        /\ nodeUp(Heap, u) =
               (IF DivisionsAround(u, 2) = {} THEN u
                ELSE StartNodeOf(sub[Nearest(DivisionsAround(u, 2))][1]))

-----------------------------------------------------------------------------
(* The cursor.                                                             *)

\* The expressions and units of the tree other than the root.
NonRootNodes == {x \in Ids \ {Root} : kind[x] # "free" /\ Attached(Heap, x)}

\* C28 as stated: the root holds the one cursor; reading it through a node
\* that is not the root gives the root's cursor, and writing it through
\* such a node replaces the root's cursor.
C28_CursorReadAndWriteDelegate ==
    /\ getCursor(Now, Root) = cursor
    /\ \A x \in NonRootNodes :
           /\ getCursor(Now, x) = cursor
           /\ \A node \in AttachedUnits(Heap) : setCursor(Now, x, node) = Editor(Heap, node)

\* C28 amended: writing the cursor through a node that is not the root
\* replaces the root's cursor and nothing else; reading it through such a
\* node throws, and only the root gives the cursor.
C28_CursorWriteDelegates ==
    /\ getCursor(Now, Root) = cursor
    /\ \A x \in NonRootNodes :
           /\ getCursor(Now, x) = Throws
           /\ \A node \in AttachedUnits(Heap) : setCursor(Now, x, node) = Editor(Heap, node)

\* The cursor is on a unit of the root and a StartNode two levels down is
\* written as the cursor through itself.
C28_Witness ==
    \E x \in NonRootNodes :
        /\ kind[x] = "start"
        /\ parent[x] # Root
        /\ parent[parent[parent[x]]] # Root
        /\ parent[cursor] = Root
        /\ setCursor(Now, x, x).cursor = x
        /\ getCursor(Now, x) = Throws

-----------------------------------------------------------------------------
(* The value attribute after an event.                                     *)

\* What updateValue() would set the value attribute to in this state.
ValueOfTree ==
    IF updateValue(Heap).status = "returns" THEN updateValue(Heap).string ELSE <<>>

\* C29: once an event has updated the value attribute and every event has
\* come back, the attribute is the serialisation of the tree as the last
\* event left it, or '' when that tree has none: collectNumerator, which
\* runs after the update of "/", and Backspace leave no earlier value.
C29_ValueReflectsTree ==
    (Updated /\ ~busy) => value = ValueOfTree

\* "/" has collected a numerator after its update: the cursor is at the
\* start of an empty denominator, and the value is ''.
C29_Witness ==
    /\ Updated
    /\ ~busy
    /\ value = <<>>
    /\ \E d \in Divisions :
           /\ Attached(Heap, d)
           /\ Len(nodes[numerator(Heap, d)]) > 1
           /\ nodes[denominator(Heap, d)] = <<cursor>>

-----------------------------------------------------------------------------
(* Moving left towards a composite.                                        *)

\* The attached units whose previous sibling is a composite, with that
\* sibling.
AfterComposite ==
    {pair \in AttachedUnits(Heap) \X Composites :
        previousSibling(Heap, pair[1]) = pair[2]}

\* C30 as stated: nodeLeft on a unit whose previous sibling is a composite
\* returns the last unit of the composite's first child expression (of a
\* Division, its numerator) and not the composite.
C30_LeftEntersComposite ==
    \A pair \in AfterComposite :
        nodeLeft(Heap, pair[1]) = LastUnit(sub[pair[2]][1])

\* C30 amended: nodeLeft on a unit that is no composite and whose previous
\* sibling is a composite returns that composite; nodeLeft on the
\* composite then returns the last unit of its first child expression.
C30_LeftReachesCompositeThenEnters ==
    \A pair \in AfterComposite :
        /\ kind[pair[1]] \notin CompositeKinds
              => nodeLeft(Heap, pair[1]) = pair[2]
        /\ nodeLeft(Heap, pair[2]) = LastUnit(sub[pair[2]][1])

\* The cursor is on an atom behind a Division.
C30_Witness ==
    \E pair \in AfterComposite :
        /\ pair[1] = cursor
        /\ kind[pair[1]] = "atom"
        /\ kind[pair[2]] = "division"
        /\ nodeLeft(Heap, cursor) = pair[2]

-----------------------------------------------------------------------------
(* A value read back.                                                      *)

\* The value attribute is the serialisation of the tree, and a field
\* constructed from it has room for its units.
Loadable ==
    /\ Updated
    /\ ~busy
    /\ ~error
    /\ 2 + CellsOf(unitsFromMathML(value)) <= MaxIds

\* The elements <degree>...</degree> removed from mml.
RECURSIVE WithoutDegree(_)
WithoutDegree(mml) ==
    IF mml = <<>> THEN <<>>
    ELSE IF mml[1] = "<degree>"
    THEN WithoutDegree(SubSeq(mml, ElementEnd(mml, 1) + 1, Len(mml)))
    ELSE <<mml[1]>> \o WithoutDegree(Tail(mml))

\* The serialisation of the tree of a field constructed with the value
\* attribute mml.
Reserialized(mml) == expressionValue(constructWithValue(mml).h, Root)

-----------------------------------------------------------------------------
(* Entering a composite.                                                   *)

\* The attached units whose next sibling is a composite, with that sibling.
BeforeComposite ==
    {pair \in AttachedUnits(Heap) \X Composites :
        previousSibling(Heap, pair[2]) = pair[1]}

\* C31: nodeRight on a unit whose next sibling is a composite returns the
\* StartNode of the composite's numerator, exponent or radicand, and
\* nodeLeft on a composite returns the last unit of that same expression.
C31_CompositeEnteredAtFirstChild ==
    /\ \A pair \in BeforeComposite :
           nodeRight(Heap, pair[1]) = StartNodeOf(sub[pair[2]][1])
    /\ \A c \in Composites : nodeLeft(Heap, c) = LastUnit(sub[c][1])

-----------------------------------------------------------------------------
(* What "/" collects.                                                      *)

\* There are cells for one more Division.
RoomForDivision == NextId(Heap) + CellsPerUnit - 1 <= MaxIds

\* The token of u ends neither a run to collect nor a parenthesized span.
NothingToCollect(u) == precisOf(Heap, u) \notin CollectChars \cup {")"}

\* C32: "/" typed behind the StartNode, an operator, a point, an opening
\* parenthesis, a pipe or infinity moves no unit: collectNumerator returns
\* false, the numerator is empty and the cursor is its StartNode.
C32_SlashCollectsNothing ==
    (~busy /\ RoomForDivision /\ NothingToCollect(cursor)) =>
        LET out == insertNodeByCharacter(Now, "/")
            d == out.node
        IN /\ out.ok
           /\ out.collected = "false"
           /\ out.h = out.mid.h
           /\ NumeratorHolds(out.h, d, <<>>)
           /\ out.cursor = startNode(out.h, numerator(out.h, d))
           /\ previousSibling(out.h, d) = cursor

\* "/" was typed behind a unit that is not collected: the cursor is the
\* StartNode of an empty numerator, and infinity, a pipe or a plus sign
\* stands before the Division.
C32_Witness ==
    \E d \in Divisions :
        /\ Attached(Heap, d)
        /\ nodes[numerator(Heap, d)] = <<cursor>>
        /\ nodes[denominator(Heap, d)] = <<startNode(Heap, denominator(Heap, d))>>
        /\ previousSibling(Heap, d) \notin {Null, Throws}
        /\ kind[previousSibling(Heap, d)] # "start"
        /\ NothingToCollect(previousSibling(Heap, d))

\* The units of the cursor's expression up to the cursor, and after it.
UpToCursor == SubSeq(nodes[parent[cursor]], 1, FindIndex(nodes[parent[cursor]], cursor) + 1)
AfterCursor ==
    SubSeq(nodes[parent[cursor]], FindIndex(nodes[parent[cursor]], cursor) + 2,
           Len(nodes[parent[cursor]]))

\* The longest run of units at the end of `units` whose token is in `chars`.
RECURSIVE TrailingUnits(_, _)
TrailingUnits(units, chars) ==
    IF units = <<>> \/ precisOf(Heap, units[Len(units)]) \notin chars THEN <<>>
    ELSE Append(TrailingUnits(SubSeq(units, 1, Len(units) - 1), chars), units[Len(units)])

\* "/" typed at the cursor has moved exactly `run` into the numerator, in
\* its order, and has left the other units of the expression where they were.
SlashCollected(out, run) ==
    /\ out.ok
    /\ out.collected = "true"
    /\ NumeratorHolds(out.h, out.node, run)
    /\ out.h.nodes[parent[cursor]] =
           SubSeq(UpToCursor, 1, Len(UpToCursor) - Len(run)) \o <<out.node>> \o AfterCursor

\* The precis before the cursor ends in a run to collect: case (a).
RunBeforeCursor ==
    /\ ~busy
    /\ RoomForDivision
    /\ precisOf(Heap, cursor) \in CollectChars

\* C33 as stated: in case (a) the units moved are exactly the longest run of
\* letters and digits before the Division, in their order, and no unit of
\* another kind is moved.
C33_RunOfAtomsCollected ==
    RunBeforeCursor =>
        SlashCollected(insertNodeByCharacter(Now, "/"),
                       TrailingUnits(UpToCursor, Letters \cup Digits))

\* C33 amended: in case (a) the units moved are exactly the longest run of
\* letters, digits, Divisions, SquareRoots and Exponents before the
\* Division, in their order; no other unit is moved.
C33_RunOfTermsCollected ==
    RunBeforeCursor =>
        SlashCollected(insertNodeByCharacter(Now, "/"), TrailingUnits(UpToCursor, CollectChars))

\* "/" has collected a letter and the Exponent or SquareRoot behind it; the
\* cursor is the StartNode of the denominator.
C33_Witness ==
    \E d \in Divisions :
        /\ Attached(Heap, d)
        /\ Len(nodes[numerator(Heap, d)]) = 3
        /\ kind[nodes[numerator(Heap, d)][2]] = "atom"
        /\ kind[nodes[numerator(Heap, d)][3]] \in CompositeKinds
        /\ cursor = startNode(Heap, denominator(Heap, d))

-----------------------------------------------------------------------------
(* Precedence of the operators.                                            *)

Cn(d) == <<"<cn>", d, "</cn>">>
Ci(c) == <<"<ci>", c, "</ci>">>

\* Positions from 1 on of RootPrecis that hold "+" or "-", and the
\* positions that hold "*".
SumPositions == {k \in 1..(Len(RootPrecis) - 1) : At(RootPrecis, k) \in {"+", "-"}}
StarPositions == {k \in 0..(Len(RootPrecis) - 1) : At(RootPrecis, k) = "*"}

\* The value of the root is `tag` applied to the values of what is left and
\* right of position k; there is no value when a side has none.
OperatorAt(k, tag) ==
    IF Serialized(0, k).status = "returns" /\ Serialized(k + 1, Len(RootPrecis)).status = "returns"
    THEN expressionValue(Heap, Root) =
             Returns(Apply2(tag, Serialized(0, k).string,
                            Serialized(k + 1, Len(RootPrecis)).string))
    ELSE expressionValue(Heap, Root).status = "throws"

\* C34: in bracket-free input "+" and "-" bind loosest, then "*", then
\* terms written side by side: where there is a "+" behind position 0 the
\* value is a sum whatever stars there are; without one the value is the
\* product at the first "*", whose left side holds no "*".  1+2*3 is
\* plus(1, times(2, 3)), 2x+1 is plus(times(2, x), 1), 2x*3 is
\* times(times(2, x), 3).
C34_SumsThenProductsThenTerms ==
    /\ (BracketFree /\ StarPositions # {}) =>
           IF SumPositions # {}
           THEN OperatorAt(CHOOSE k \in SumPositions : \A j \in SumPositions : j <= k, "<plus/>")
           ELSE OperatorAt(CHOOSE k \in StarPositions : \A j \in StarPositions : k <= j,
                           "<times/>")
    /\ RootPrecis = <<"1", "+", "2", "*", "3">> =>
           expressionValue(Heap, Root) =
               Returns(Apply2("<plus/>", Cn("1"), Apply2("<times/>", Cn("2"), Cn("3"))))
    /\ RootPrecis = <<"2", "x", "+", "1">> =>
           expressionValue(Heap, Root) =
               Returns(Apply2("<plus/>", Apply2("<times/>", Cn("2"), Ci("x")), Cn("1")))
    /\ RootPrecis = <<"2", "x", "*", "3">> =>
           expressionValue(Heap, Root) =
               Returns(Apply2("<times/>", Apply2("<times/>", Cn("2"), Ci("x")), Cn("3")))

\* 1+2*3 has been typed and its value is the sum of 1 and the product.
C34_Witness ==
    /\ RootPrecis = <<"1", "+", "2", "*", "3">>
    /\ value = Apply2("<plus/>", Cn("1"), Apply2("<times/>", Cn("2"), Cn("3")))
    /\ ~error

-----------------------------------------------------------------------------
(* C35: empty operands and arguments.                                      *)

\* The tokens of the units of expression e.
PrecisOfExpression(h, e) == [i \in 1..Len(h.nodes[e]) |-> precisOf(h, h.nodes[e][i])]

\* The tokens behind the StartNode.
Body(p) == IF p # <<>> /\ p[1] = "_" THEN SliceFrom(p, 1) ELSE p

\* The expressions of the field.
FieldExpressions == {e \in Expressions(Heap) : Attached(Heap, e)}

\* The pipe at position i of p opens a span.
OpensPipes(p, i) ==
    At(p, i) = "|" /\ Cardinality({j \in 0..(i - 1) : At(p, j) = "|"}) % 2 = 0

\* Every "(" of p has its ")" and every ")" its "(".
Balanced(p) ==
    \A i \in 0..(Len(p) - 1) :
        /\ At(p, i) = "(" => findMatchingParen(p, i) # NullPos
        /\ At(p, i) = ")" => \E j \in 0..(i - 1) : At(p, j) = "(" /\ findMatchingParen(p, j) = i

\* The number of pipes of p.
Pipes(p) == Cardinality({i \in 0..(Len(p) - 1) : At(p, i) = "|"})

\* The parentheses of p are matched, the pipes of p and of every
\* parenthesized span are even in number, and what stands between a pipe
\* that opens a span and the next pipe has its parentheses matched.
Delimited(p) ==
    /\ Balanced(p)
    /\ Pipes(p) % 2 = 0
    /\ \A i \in 0..(Len(p) - 1) :
           /\ At(p, i) = "(" => Pipes(Slice(p, i + 1, findMatchingParen(p, i))) % 2 = 0
           /\ OpensPipes(p, i) => Balanced(Slice(p, i + 1, IndexOf(p, "|", i + 1)))

\* p has an empty operand or argument: nothing behind the StartNode, "()",
\* "||", an operator at either end, a function name at the end, or an
\* exponent in front.
EmptyOperand(p) ==
    LET b == Body(p)
        n == Len(b)
    IN \/ n = 0
       \/ \E i \in 0..(n - 2) : At(b, i) = "(" /\ At(b, i + 1) = ")"
       \/ \E i \in 0..(n - 2) : OpensPipes(b, i) /\ At(b, i + 1) = "|"
       \/ At(b, n - 1) \in {"+", "-", "*"}
       \/ At(b, 0) \in {"+", "*"}
       \/ \E name \in FunctionNames : n >= Len(name) /\ SliceFrom(b, n - Len(name)) = name
       \/ At(b, 0) = "^"

\* The parentheses and pipes of every expression of the field are matched.
FieldDelimited == \A f \in FieldExpressions : Delimited(PrecisOfExpression(Heap, f))

-----------------------------------------------------------------------------
(* C36: the pipe that closes a span.                                       *)

\* The pipe at the end of RootPrecis is the one findMatchingPipe pairs with
\* the pipe in front, and what stands between them has a serialisation.
PipesAroundRoot ==
    /\ ParenthesesPaired
    /\ Len(RootPrecis) >= 2
    /\ At(RootPrecis, 0) = "|"
    /\ findMatchingPipe(RootPrecis, 0) = Len(RootPrecis) - 1
    /\ Serialized(1, Len(RootPrecis) - 1).status = "returns"

\* C36: a pipe at the start of a term is closed by the pipe that
\* findMatchingPipe pairs with it, the pipes inside nested parentheses
\* being ignored: the value is abs of what stands between the two, and
\* |(|x|)| is abs(abs(x)).
C36_ClosingPipeByContext ==
    /\ PipesAroundRoot =>
           expressionValue(Heap, Root) =
               Returns(Apply1("<abs/>", Serialized(1, Len(RootPrecis) - 1).string))
    /\ RootPrecis = <<"|", "(", "|", "x", "|", ")", "|">> =>
           expressionValue(Heap, Root) = Returns(Apply1("<abs/>", AbsOfX))

-----------------------------------------------------------------------------
(* C37: the precis and the nodes it stands for.                            *)

\* The calls of _parse made while the value of expression e is computed.
CallsOf(e) == parseCalls(Heap, e, PrecisOfExpression(Heap, e), 0)

\* C37: in every call _parse(precis, offset) made while an expression of the
\* field is serialised, precis[i] is the token of nodes[offset + i] of that
\* expression; so a "%" stands where a Division or a SquareRoot is and a "^"
\* where an Exponent is, and these are the units whose values are read.
C37_PrecisAlignedWithNodes ==
    \A e \in FieldExpressions :
        \A call \in CallsOf(e) :
            \A i \in 0..(Len(call[1]) - 1) :
                /\ call[2] + i < Len(nodes[e])
                /\ At(call[1], i) = precisOf(Heap, At(nodes[e], call[2] + i))
                /\ At(call[1], i) = "%" => kind[At(nodes[e], call[2] + i)] \in {"division", "squareroot"}
                /\ At(call[1], i) = "^" => kind[At(nodes[e], call[2] + i)] = "exponent"

\* The root has a value, and computing it a square root or a fraction was
\* read behind a minus sign, a function name, an operator, a parenthesis or
\* a pipe, or an exponent was read behind its base.
C37_Witness ==
    /\ updateValue(Heap).status = "returns"
    /\ value = updateValue(Heap).string
    /\ \E call \in CallsOf(Root) :
           /\ call[2] >= 2
           /\ \/ At(call[1], 0) = "%"
              \/ Len(call[1]) >= 2 /\ At(call[1], 1) = "^"

-----------------------------------------------------------------------------
(* C38: an insertion undone by Backspace.                                  *)

\* Keys that insert an Atom, a Bracket or an Absolute unit.
SimpleKeys == {"x", "1", "+", "(", ")", "|"}

\* The editor an inserting handler leaves.
Left(out) == Editor(out.h, out.cursor)

\* Every nodes sequence and the cursor of st are those of the field.
SameNodesAndCursor(st) ==
    /\ \A e \in Expressions(Heap) : st.h.nodes[e] = nodes[e]
    /\ Expressions(st.h) = Expressions(Heap)
    /\ st.cursor = cursor

\* The unit inserted by `out` is a composite standing behind the place of
\* the cursor or of what was collected, the cursor is a StartNode inside
\* it, and Backspace changes nothing.
CompositeStays(out) ==
    /\ out.ok
    /\ Attached(out.h, out.node)
    /\ out.h.kind[out.cursor] = "start"
    /\ out.h.parent[out.h.parent[out.cursor]] = out.node
    /\ keydown(Left(out), "Backspace").h = out.h
    /\ keydown(Left(out), "Backspace").cursor = out.cursor
    /\ ~SameNodesAndCursor(Left(out))

\* C38: Backspace behind a newly inserted Atom, Bracket or Absolute unit
\* gives back every nodes sequence and the cursor as they were before the
\* insertion; behind a newly inserted "/", "^" or square root the cursor is
\* a StartNode inside the composite and Backspace does nothing.
C38_BackspaceUndoesSimpleInsert ==
    (~busy /\ RoomForDivision) =>
        /\ \A key \in SimpleKeys :
               LET out == keydown(Now, key)
               IN (out.ok /\ out.update.status # "diverges") =>
                      /\ out.h.nodes[parent[cursor]] # nodes[parent[cursor]]
                      /\ SameNodesAndCursor(Left(keydown(Left(out), "Backspace")))
        /\ \A key \in {"/", "^"} : CompositeStays(keydown(Now, key))
        /\ CompositeStays(insertAttribute(Now, "sqrt"))

\* x was typed behind the StartNode of a radicand and Backspace pressed: the
\* radicand holds its StartNode only, which is the cursor, and the Atom is
\* in no expression.
C38_Witness ==
    /\ ~busy
    /\ \E r \in AttachedUnits(Heap), u \in Ids :
           /\ kind[r] = "squareroot"
           /\ nodes[inner(Heap, r)] = <<cursor>>
           /\ kind[u] = "atom"
           /\ parent[u] = inner(Heap, r)
           /\ ~Attached(Heap, u)

-----------------------------------------------------------------------------
(* C39: a deleted unit.                                                    *)

\* Unit u is listed by the expression its parent field names.
Listed(h, u) == h.parent[u] # Null /\ FindIndex(h.nodes[h.parent[u]], u) # NotFound

\* Unit u has been removed by delete: its parent field names an expression
\* that does not list it.
Deleted(h, u) == h.parent[u] # Null /\ FindIndex(h.nodes[h.parent[u]], u) = NotFound

\* C39: delete(node) leaves the parent field of node as it was; from then
\* on insertAfter(node) on any anchor throws and changes nothing, and on an
\* anchor that has a parent it throws in the second delete, where indexOf
\* does not find the node ('Node not found.'): the unit stays unattached.
C39_DeletedStaysDeleted ==
    /\ \A u \in Held :
           Listed(Heap, u) =>
               /\ delete(Heap, u).h.parent[u] = parent[u]
               /\ Deleted(delete(Heap, u).h, u)
    /\ \A u \in Held :
           Deleted(Heap, u) =>
               \A a \in Units(Heap) :
                   /\ insertAfter(Heap, a, u) = Thrown(Heap)
                   /\ parent[a] # Null => delete(Heap, u) = Thrown(Heap)

\* The program has deleted a fraction it had inserted behind the root's
\* StartNode, and holds another unit that is in the root.
C39_Witness ==
    \E u \in Held, v \in Held :
        /\ kind[u] = "division"
        /\ Deleted(Heap, u)
        /\ parent[u] = Root
        /\ Listed(Heap, v)
        /\ parent[v] = Root
====
